---- MODULE Spec2Model ----
(***************************************************************************)
(* A model of the scorecard processing core of who-won:                    *)
(*   - preprocessing_pipeline.run_pipeline and                             *)
(*     scorecard_service.process_scorecard (specification Spec),           *)
(*   - table_detection.detect_table (specification SpecGrid),              *)
(*   - ocr_engine.detect_player_rows (specification SpecPass1),            *)
(*   - the debug images kept under /tmp by concurrent runs                 *)
(*     (specification SpecConc).                                           *)
(*   - ocr_engine.extract_scorecard_data (specification SpecExtract),      *)
(*   - ocr_engine.detect_player_rows on tall grids (specification          *)
(*     SpecTall),                                                          *)
(*   - single calls of is_player_name, ocr_cell, deskew, grayscale,        *)
(*     image_to_bytes and bytes_to_image, calculate_totals and             *)
(*     calculate_stroke_play_winner (specifications SpecName, SpecOcrCell, *)
(*     SpecDeskew, SpecGrayscale, SpecRoundTrip, SpecTotals, SpecWinner),  *)
(*   - the routes /upload-and-process and /export (specification           *)
(*     SpecRoutes),                                                        *)
(*   - claude_service._compress_image (specification SpecCompress).        *)
(***************************************************************************)
EXTENDS Integers, Sequences, FiniteSets, TLC

VARIABLES
    \* ---- one process_scorecard run (scorecard_service.py, preprocessing_pipeline.py)
    pc,                     \* position of the run
    image_bytes,            \* bytes downloaded from storage (None before the fetch)
    img,                    \* run_pipeline's local img
    steps,                  \* run_pipeline's local list of PreprocessingStep
    final_image_bytes,      \* second component of run_pipeline's result
    steps_response,         \* process_scorecard's list of ProcessingStepResponse
    completed_s3_paths,
    step_number,
    final_preprocessed_img,
    grid,                   \* process_scorecard's local grid
    detection,              \* result of Pass 1 (None until it returned)
    player_data,            \* result of Pass 2 (None until it returned)
    scorecard_data,
    status,                 \* overall status of the response (None until returned)
    executed,               \* history: the stages started and the failures, in order
    \* ---- one detect_table call (table_detection.py)
    gpc,                    \* position of the call
    positions,              \* find_line_positions' local positions
    filtered,               \* find_line_positions' result
    horizontal_positions,
    vertical_positions,
    table,                  \* detect_table's result (None, or a TableGrid)
    \* ---- one detect_player_rows call (ocr_engine.py, Pass 1)
    opc,                    \* position of the call
    cells,                  \* the cells argument (the grid's cells)
    rows_dict,              \* row -> leftmost wide cell
    queue,                  \* the candidates the loop has still to visit, by row
    player_rows,
    player_names,
    examined,               \* history: the (row, col) of the cells the loop examined, in order
    \* ---- the rest of one extract_scorecard_data call (ocr_engine.py, Pass 2)
    scorecard,              \* the image: its header rows and its out-of-the-ordinary cell
    recognised,             \* history: the (pass, row, col) the recogniser was run on
    pass2_rows,             \* extract_player_rows: the player rows still to visit
    row_values,             \* extract_player_rows' local row_values
    pass2_player_data,      \* extract_player_rows' local player_data
    extracted,              \* extract_scorecard_data's result (None until it returned)
    \* ---- several process_scorecard runs sharing /tmp (step 7 of each)
    tmp,                    \* /tmp/debug_*.png: file -> the run that wrote it (0: no file)
    cpc,                    \* run -> position of the run
    cnr,                    \* run -> number of candidate rows of its grid
    crow,                   \* run -> row the Pass 1 loop is at
    debug_files,            \* run -> upload_debug_images' list still to visit
    uploaded,               \* history: run -> the (file, writer) it uploaded
    removed,                \* history: run -> the (file, writer) it deleted
    overwrote,              \* history: the (run, file, writer) overwritten by run
    \* ---- one call of a single function
    call,                   \* the function called and its arguments
    result,                 \* Pending, Returned(value) or RaisedError
    \* ---- one request to the API (routers/scorecard.py)
    rpc,                    \* position of the handler
    request,                \* the request received
    s3_objects,             \* the keys written to storage
    raw_data,               \* what the extraction service returned (None before)
    upload_players,         \* upload_and_process_scorecard's local players
    upload_winner,          \* upload_and_process_scorecard's local winner
    response,               \* what the client receives (None until answered)
    \* ---- one _compress_image call (claude_service.py)
    zpc,                    \* position of the call
    zimg,                   \* _compress_image's local img
    processed_bytes,        \* length of the first encoding
    quality,
    scale,                  \* number of times 0.1 was subtracted from 0.8
    resized,                \* size of the last resized image
    compressed_bytes,       \* length of the last encoding
    zresult                 \* length of the bytes returned (None until returned)

pvars == <<pc, image_bytes, img, steps, final_image_bytes, steps_response,
           completed_s3_paths, step_number, final_preprocessed_img, grid,
           detection, player_data, scorecard_data, status, executed>>

gvars == <<gpc, positions, filtered, horizontal_positions, vertical_positions, table>>

ovars == <<opc, cells, rows_dict, queue, player_rows, player_names, examined,
           scorecard, recognised, pass2_rows, row_values, pass2_player_data,
           extracted>>

cvars == <<tmp, cpc, cnr, crow, debug_files, uploaded, removed, overwrote>>

fvars == <<call, result>>

rvars == <<rpc, request, s3_objects, raw_data, upload_players, upload_winner,
           response>>

zvars == <<zpc, zimg, processed_bytes, quality, scale, resized,
           compressed_bytes, zresult>>

vars == <<pvars, gvars, ovars, cvars, fvars, rvars, zvars>>

(* What the actions of one part of the model leave alone. *)
notP == <<gvars, ovars, cvars, fvars, rvars, zvars>>
notG == <<pvars, ovars, cvars, fvars, rvars, zvars>>
notO == <<pvars, gvars, cvars, fvars, rvars, zvars>>
notC == <<pvars, gvars, ovars, fvars, rvars, zvars>>
notF == <<pvars, gvars, ovars, cvars, rvars, zvars>>
notR == <<pvars, gvars, ovars, cvars, fvars, zvars>>
notZ == <<pvars, gvars, ovars, cvars, fvars, rvars>>

----------------------------------------------------------------------------
(* Optional values: Python's None is the empty tuple, a value v is <<v>>.  *)
None == <<>>
Some(v) == <<v>>

(* Bounds of the model. *)
NumInputs == 2
NumErrTexts == 2
MaxGridRows == 7
MaxGridCols == 2

ErrTexts == {"error_" \o ToString(i) : i \in 1..NumErrTexts}

(* The objects storage can hold: well-formed encoded images and malformed  *)
(* byte strings.                                                           *)
StoredObjects ==
    [id : 1..NumInputs, wellformed : BOOLEAN, encoded : {None}]

----------------------------------------------------------------------------
(* image_operations.py: conversions                                        *)

(* cv2.imdecode(..., IMREAD_COLOR): a 3-channel image, or None for         *)
(* malformed bytes, on which bytes_to_image raises ValueError.             *)
CanDecode(b) == b.wellformed

(* The pixels decoded from bytes that encode an image are that image's for *)
(* PNG and an approximation of them ("lossy") for the other formats.       *)
bytes_to_image(b) ==
    IF b.encoded = None
    THEN [src |-> b.id, ops |-> <<>>, channels |-> 3]
    ELSE [b.encoded[1].img EXCEPT
             !.channels = 3,
             !.ops = IF b.encoded[1].format = "PNG" THEN @ ELSE Append(@, "lossy")]

DecodeErrorText == "Failed to decode image"

(* cv2.imencode: the bytes carry the format and the image encoded. *)
image_to_bytes(im, format) ==
    [id |-> 0, wellformed |-> TRUE, encoded |-> Some([format |-> format, img |-> im])]

(* image_operations.py: the five transforms, as the record of the          *)
(* operations applied to the source image.                                 *)
ApplyOp(im, op) ==
    [im EXCEPT !.ops = Append(@, op),
               !.channels = IF op = "grayscale" THEN 1 ELSE @]

----------------------------------------------------------------------------
(* preprocessing_pipeline.py: run_pipeline                                 *)

StageOrderSwapped ==
    <<"grayscale", "contrast_enhancement", "binarization", "denoising", "deskewing">>

(* The fixed order of the stages, with the step_name each one records. *)
StageOrder ==
    <<"grayscale", "contrast_enhancement", "denoising", "binarization", "deskewing">>

(* Stage k encodes its output as JPEG, the last one as PNG. *)
StageFormat(k) == IF k = 5 THEN "PNG" ELSE "JPEG"

SuccessStep(name, bytes) ==
    [step_name |-> name, status |-> "success", image_bytes |-> Some(bytes),
     error |-> None]

FailureStepOffByOne(steps_, e) ==
    [step_name |-> "failed_at_step_" \o ToString(Len(steps_)), status |-> "error",
     image_bytes |-> None, error |-> Some(e)]

(* steps.append(...) with the last record overwritten instead. *)
AppendStepOverwriting(steps_, record) ==
    IF steps_ = <<>> THEN <<record>> ELSE [steps_ EXCEPT ![Len(steps_)] = record]

(* steps.append(record) *)
AppendStep(steps_, record) == Append(steps_, record)

(* The except branch: the record appended when anything in the try raises. *)
FailureStep(steps_, e) ==
    [step_name |-> "failed_at_step_" \o ToString(Len(steps_) + 1), status |-> "error",
     image_bytes |-> None, error |-> Some(e)]

----------------------------------------------------------------------------
(* scorecard_service.py: process_scorecard                                 *)

Response(name, st, err, path) ==
    [step_name |-> name, status |-> st, error |-> err, s3_path |-> path]

ProcessedFolder == "Processed/id/"

StepKey(n, name) ==
    ProcessedFolder \o ToString(n) \o "_" \o name \o "."
        \o (IF name = "deskewing" THEN "png" ELSE "jpg")

Started(stage) == <<"start", stage>>
Raised(stage, e) == <<"raise", stage, e>>
Failed(name) == <<"fail", name>>

(* Lines 83-102: the download; a ClientError propagates to the caller. *)
Fetch ==
    /\ UNCHANGED notP
    /\ pc = "start"
    /\ \/ \E b \in StoredObjects :
            /\ image_bytes' = Some(b)
            /\ steps_response' = <<Response("fetch_from_s3", "success", None, Some("raw"))>>
            /\ executed' = Append(executed, Started("fetch"))
            /\ pc' = "decode"
       \/ /\ pc' = "raised"
          /\ executed' = executed \o <<Started("fetch"), Failed("fetch_from_s3")>>
          /\ UNCHANGED <<image_bytes, steps_response>>
    /\ UNCHANGED <<img, steps, final_image_bytes, completed_s3_paths, step_number,
                   final_preprocessed_img, grid, detection, player_data,
                   scorecard_data, status>>

(* run_pipeline lines 44-47 and 127-135: the decode sits inside the try. *)
Decode ==
    /\ UNCHANGED notP
    /\ pc = "decode"
    /\ IF CanDecode(image_bytes[1])
       THEN /\ img' = Some(bytes_to_image(image_bytes[1]))
            /\ pc' = "stage"
            /\ UNCHANGED <<steps, final_image_bytes, executed>>
       ELSE /\ steps' = AppendStep(steps, FailureStep(steps, DecodeErrorText))
            /\ final_image_bytes' = None
            /\ executed' = Append(executed, Raised("decode", DecodeErrorText))
            /\ pc' = "upload_steps"
            /\ UNCHANGED img
    /\ UNCHANGED <<image_bytes, steps_response, completed_s3_paths, step_number,
                   final_preprocessed_img, grid, detection, player_data,
                   scorecard_data, status>>

(* run_pipeline lines 49-125 and 127-135: stage k = len(steps) + 1 runs on *)
(* the current img; it appends its record, or raises (in the transform or  *)
(* while encoding its output) and the except branch ends the pipeline.     *)
Stage ==
    /\ UNCHANGED notP
    /\ pc = "stage"
    /\ LET k == Len(steps) + 1
           out == ApplyOp(img[1], StageOrder[k])
           img_bytes == image_to_bytes(out, StageFormat(k))
       IN  \/ /\ img' = Some(out)
              /\ steps' = AppendStep(steps, SuccessStep(StageOrder[k], img_bytes))
              /\ executed' = Append(executed, Started(StageOrder[k]))
              /\ IF k = 5
                 THEN /\ final_image_bytes' = Some(img_bytes)
                      /\ pc' = "upload_steps"
                 ELSE UNCHANGED <<final_image_bytes, pc>>
           \/ \E e \in ErrTexts, encoding \in BOOLEAN :
              /\ img' = IF encoding THEN Some(out) ELSE img
              /\ steps' = AppendStep(steps, FailureStep(steps, e))
              /\ executed' = executed \o <<Started(StageOrder[k]), Raised(StageOrder[k], e)>>
              /\ final_image_bytes' = None
              /\ pc' = "upload_steps"
    /\ UNCHANGED <<image_bytes, steps_response, completed_s3_paths, step_number,
                   final_preprocessed_img, grid, detection, player_data,
                   scorecard_data, status>>

(* Lines 115-160: one iteration of the loop over the pipeline's steps. *)
UploadStep ==
    /\ UNCHANGED notP
    /\ pc = "upload_steps"
    /\ IF step_number > Len(steps)
       THEN /\ pc' = "table_detection"
            /\ UNCHANGED <<steps_response, completed_s3_paths, step_number,
                           final_preprocessed_img, executed>>
       ELSE LET step == steps[step_number]
                key == StepKey(step_number, step.step_name)
            IN  IF step.status = "error"
                THEN /\ steps_response' = Append(steps_response,
                            Response(step.step_name, "error", step.error, None))
                     /\ pc' = "table_detection"
                     /\ executed' = Append(executed, Failed(step.step_name))
                     /\ UNCHANGED <<completed_s3_paths, step_number,
                                    final_preprocessed_img>>
                ELSE \/ /\ completed_s3_paths' = Append(completed_s3_paths, key)
                        /\ steps_response' = Append(steps_response,
                               Response(step.step_name, "success", None, Some(key)))
                        /\ final_preprocessed_img' =
                               IF step.step_name = "deskewing"
                               THEN Some(bytes_to_image(step.image_bytes[1]))
                               ELSE final_preprocessed_img
                        /\ step_number' = step_number + 1
                        /\ UNCHANGED <<pc, executed>>
                     \/ \E e \in ErrTexts :
                        /\ steps_response' = Append(steps_response,
                               Response(step.step_name, "error",
                                        Some("S3 upload failed: " \o e), None))
                        /\ pc' = "table_detection"
                        /\ executed' = Append(executed, Failed(step.step_name))
                        /\ UNCHANGED <<completed_s3_paths, step_number,
                                       final_preprocessed_img>>
    /\ UNCHANGED <<image_bytes, img, steps, final_image_bytes, grid, detection,
                   player_data, scorecard_data, status>>

(* The grids detect_table can hand to process_scorecard (detect_table      *)
(* itself is modelled step by step under SpecGrid).                        *)
DetectableGrids == [num_rows : 1..MaxGridRows, num_cols : 1..MaxGridCols]

(* The rows of a grid that Pass 1 can accept (is_player_name's row range). *)
AcceptableRows(g) == {r \in 0..(g.num_rows - 1) : r >= 5 /\ r <= 15}

(* The value of the local grid when the try block of step 6 raised after   *)
(* line 170 had assigned it: the except branch (lines 212-219) leaves it.  *)
GridAfterLateError(g) == Some(g)

(* Lines 162-219: step 6. *)
TableDetection ==
    /\ UNCHANGED notP
    /\ pc = "table_detection"
    /\ IF final_preprocessed_img = None
       THEN /\ pc' = "extraction"
            /\ UNCHANGED <<grid, steps_response, completed_s3_paths, executed>>
       ELSE /\ pc' = "extraction"
            /\ \/ \* detect_table raises
                  \E e \in ErrTexts :
                  /\ steps_response' = Append(steps_response,
                         Response("table_detection", "error", Some(e), None))
                  /\ executed' = executed \o
                         <<Started("table_detection"), Failed("table_detection")>>
                  /\ UNCHANGED <<grid, completed_s3_paths>>
               \/ \* detect_table returns None
                  /\ steps_response' = Append(steps_response,
                         Response("table_detection", "error",
                                  Some("Could not detect table structure"), None))
                  /\ executed' = executed \o
                         <<Started("table_detection"), Failed("table_detection")>>
                  /\ UNCHANGED <<grid, completed_s3_paths>>
               \/ \* detect_table returns a grid; drawing and upload succeed
                  \E g \in DetectableGrids :
                  /\ grid' = Some(g)
                  /\ completed_s3_paths' = Append(completed_s3_paths,
                         ProcessedFolder \o "6_table_detection.png")
                  /\ steps_response' = Append(steps_response,
                         Response("table_detection", "success", None,
                                  Some(ProcessedFolder \o "6_table_detection.png")))
                  /\ executed' = Append(executed, Started("table_detection"))
               \/ \* detect_table returns a grid; drawing, encoding or upload raises
                  \E g \in DetectableGrids, e \in ErrTexts :
                  /\ grid' = GridAfterLateError(g)
                  /\ steps_response' = Append(steps_response,
                         Response("table_detection", "error", Some(e), None))
                  /\ executed' = executed \o
                         <<Started("table_detection"), Failed("table_detection")>>
                  /\ UNCHANGED completed_s3_paths
    /\ UNCHANGED <<image_bytes, img, steps, final_image_bytes, step_number,
                   final_preprocessed_img, detection, player_data, scorecard_data,
                   status>>

ExtractionError(e) ==
    /\ steps_response' = Append(steps_response,
           Response("scorecard_extraction", "error", Some(e), None))
    /\ pc' = "finish"

(* Lines 221-231 and ocr_engine.extract_scorecard_data line 448: Pass 1. *)
RowIdentification ==
    /\ UNCHANGED notP
    /\ pc = "extraction"
    /\ IF final_preprocessed_img # None /\ grid # None
       THEN \/ \E rows \in SUBSET AcceptableRows(grid[1]) :
               /\ detection' = Some(rows)
               /\ executed' = Append(executed, Started("row_identification"))
               /\ pc' = "cells"
               /\ UNCHANGED steps_response
            \/ \E e \in ErrTexts :
               /\ ExtractionError(e)
               /\ executed' = executed \o
                      <<Started("row_identification"), Failed("scorecard_extraction")>>
               /\ UNCHANGED detection
       ELSE /\ pc' = "finish"
            /\ UNCHANGED <<detection, executed, steps_response>>
    /\ UNCHANGED <<image_bytes, img, steps, final_image_bytes, completed_s3_paths,
                   step_number, final_preprocessed_img, grid, player_data,
                   scorecard_data, status>>

(* ocr_engine.extract_scorecard_data line 453: Pass 2. *)
CellExtraction ==
    /\ UNCHANGED notP
    /\ pc = "cells"
    /\ \/ /\ player_data' = Some(detection[1])
          /\ executed' = Append(executed, Started("cell_extraction"))
          /\ pc' = "assemble"
          /\ UNCHANGED steps_response
       \/ \E e \in ErrTexts :
          /\ ExtractionError(e)
          /\ executed' = executed \o
                 <<Started("cell_extraction"), Failed("scorecard_extraction")>>
          /\ UNCHANGED player_data
    /\ UNCHANGED <<image_bytes, img, steps, final_image_bytes, completed_s3_paths,
                   step_number, final_preprocessed_img, grid, detection,
                   scorecard_data, status>>

(* ocr_engine.extract_scorecard_data lines 455-465, then process_scorecard *)
(* lines 233-283: debug images, visualisation, upload, response.           *)
Assemble ==
    /\ UNCHANGED notP
    /\ pc = "assemble"
    /\ scorecard_data' = Some([players |-> player_data[1],
                               total_players |-> Cardinality(player_data[1])])
    /\ pc' = "finish"
    /\ \/ /\ completed_s3_paths' = Append(completed_s3_paths,
                 ProcessedFolder \o "7_scorecard_extraction.png")
          /\ steps_response' = Append(steps_response,
                 Response("scorecard_extraction", "success", None,
                          Some(ProcessedFolder \o "7_scorecard_extraction.png")))
          /\ executed' = Append(executed, Started("assembly"))
       \/ \E e \in ErrTexts :
          /\ steps_response' = Append(steps_response,
                 Response("scorecard_extraction", "error", Some(e), None))
          /\ executed' = executed \o
                 <<Started("assembly"), Failed("scorecard_extraction")>>
          /\ UNCHANGED completed_s3_paths
    /\ UNCHANGED <<image_bytes, img, steps, final_image_bytes, step_number,
                   final_preprocessed_img, grid, detection, player_data, status>>

(* Lines 286-305: the overall status and the return. *)
Finish ==
    /\ UNCHANGED notP
    /\ pc = "finish"
    /\ status' = IF \A i \in 1..Len(steps_response) : steps_response[i].status = "success"
                 THEN Some("success")
                 ELSE Some("partial_failure")
    /\ pc' = "done"
    /\ UNCHANGED <<image_bytes, img, steps, final_image_bytes, steps_response,
                   completed_s3_paths, step_number, final_preprocessed_img, grid,
                   detection, player_data, scorecard_data, executed>>

(* The state in which process_scorecard is entered. *)
PStart ==
    /\ pc = "start"
    /\ image_bytes = None
    /\ img = None
    /\ steps = <<>>
    /\ final_image_bytes = None
    /\ steps_response = <<>>
    /\ completed_s3_paths = <<>>
    /\ step_number = 1
    /\ final_preprocessed_img = None
    /\ grid = None
    /\ detection = None
    /\ player_data = None
    /\ scorecard_data = None
    /\ status = None
    /\ executed = <<>>

(* No process_scorecard run (the other specifications). *)
PIdle ==
    /\ pc = "idle"
    /\ image_bytes = None
    /\ img = None
    /\ steps = <<>>
    /\ final_image_bytes = None
    /\ steps_response = <<>>
    /\ completed_s3_paths = <<>>
    /\ step_number = 1
    /\ final_preprocessed_img = None
    /\ grid = None
    /\ detection = None
    /\ player_data = None
    /\ scorecard_data = None
    /\ status = None
    /\ executed = <<>>

----------------------------------------------------------------------------
(* table_detection.py                                                      *)

(* Bounds: the image, and the contours cv2.findContours can report. *)
ImgWidth == 400
ImgHeight == 320
MaxLineIdx == 3
MaxContours == 3

Min(a, b) == IF a < b THEN a ELSE b
Max(a, b) == IF a > b THEN a ELSE b
Abs(a) == IF a < 0 THEN -a ELSE a

SetMin(S) == CHOOSE x \in S : \A y \in S : x <= y
SetMax(S) == CHOOSE x \in S : \A y \in S : x >= y
Range(q) == {q[i] : i \in 1..Len(q)}

(* detect_table lines 186-187 and 202-203. *)
KernelLength(dimension) == Max(dimension \div 15, 40)
MinLength(dimension) == dimension \div 8

(* The bounding rectangles of the contours left by the opening along one   *)
(* axis: a rule line of thickness 1 or 3 starting at a multiple of 20,     *)
(* as long as the kernel, just below or at the minimum length, or spanning *)
(* the image.                                                              *)
LineLengths(dimension) ==
    {KernelLength(dimension), MinLength(dimension) - 1, MinLength(dimension), dimension}

Contours(is_horizontal) ==
    IF is_horizontal
    THEN [x : {0}, y : {20 * i : i \in 0..MaxLineIdx}, w : LineLengths(ImgWidth),
          h : {1, 3}]
    ELSE [x : {20 * i : i \in 0..MaxLineIdx}, y : {0}, w : {1, 3},
          h : LineLengths(ImgHeight)]

(* find_line_positions lines 84-101: the loop body for one contour. *)
AppendLinePosition(ps, rect, is_horizontal, min_length) ==
    IF is_horizontal
    THEN IF rect.w >= min_length THEN Append(ps, rect.y + rect.h \div 2) ELSE ps
    ELSE IF rect.h >= min_length THEN Append(ps, rect.x + rect.w \div 2) ELSE ps

(* sorted(set(positions)) *)
RECURSIVE SortedSeq(_)
SortedSeq(S) ==
    IF S = {} THEN <<>> ELSE <<SetMin(S)>> \o SortedSeq(S \ {SetMin(S)})

RECURSIVE CollapseInclusive(_, _)
CollapseInclusive(sorted, acc) ==
    IF sorted = <<>> THEN acc
    ELSE CollapseInclusive(Tail(sorted),
            IF acc = <<>> \/ Abs(Head(sorted) - acc[Len(acc)]) >= 20
            THEN Append(acc, Head(sorted))
            ELSE acc)

(* find_line_positions lines 108-111: keep a position when it is more than *)
(* 20 px from the last one kept.                                           *)
RECURSIVE Collapse(_, _)
Collapse(sorted, acc) ==
    IF sorted = <<>> THEN acc
    ELSE Collapse(Tail(sorted),
            IF acc = <<>> \/ Abs(Head(sorted) - acc[Len(acc)]) > 20
            THEN Append(acc, Head(sorted))
            ELSE acc)

FilterPositionsInclusive(ps) == CollapseInclusive(SortedSeq(Range(ps)), <<>>)

(* find_line_positions lines 105-115. *)
FilterPositions(ps) == Collapse(SortedSeq(Range(ps)), <<>>)

Cell(row, col, x, y, width, height) ==
    [row |-> row, col |-> col, x |-> x, y |-> y, width |-> width, height |-> height]

ExtractCellsNoSubtract(H, V) ==
    LET nr == Len(H) - 1
        nc == Len(V) - 1
    IN  IF nr <= 0 \/ nc <= 0 THEN <<>>
        ELSE [i \in 1..(nr * nc) |->
                LET r == (i - 1) \div nc
                    c == (i - 1) % nc
                IN  Cell(r, c, V[c + 1], H[r + 1], V[c + 2], H[r + 2])]

(* extract_cells_from_grid: the cells in the order the nested loops append *)
(* them; Python's H[r] is H[r + 1] here.                                   *)
extract_cells_from_grid(H, V) ==
    LET nr == Len(H) - 1
        nc == Len(V) - 1
    IN  IF nr <= 0 \/ nc <= 0 THEN <<>>
        ELSE [i \in 1..(nr * nc) |->
                LET r == (i - 1) \div nc
                    c == (i - 1) % nc
                IN  Cell(r, c, V[c + 1], H[r + 1],
                         V[c + 2] - V[c + 1], H[r + 2] - H[r + 1])]

TableGridNoPlusOne(h_lines, v_lines, cells_) ==
    [horizontal_lines |-> h_lines, vertical_lines |-> v_lines, cells |-> cells_,
     num_rows |-> IF cells_ # <<>>
                  THEN SetMax({cells_[i].row : i \in 1..Len(cells_)}) ELSE 0,
     num_cols |-> IF cells_ # <<>>
                  THEN SetMax({cells_[i].col : i \in 1..Len(cells_)}) + 1 ELSE 0]

(* TableGrid.__init__ *)
TableGrid(h_lines, v_lines, cells_) ==
    [horizontal_lines |-> h_lines, vertical_lines |-> v_lines, cells |-> cells_,
     num_rows |-> IF cells_ # <<>>
                  THEN SetMax({cells_[i].row : i \in 1..Len(cells_)}) + 1 ELSE 0,
     num_cols |-> IF cells_ # <<>>
                  THEN SetMax({cells_[i].col : i \in 1..Len(cells_)}) + 1 ELSE 0]

NotEnoughLinesBoth(H, V) == Len(H) < 2 /\ Len(V) < 2

(* detect_table line 222. *)
NotEnoughLines(H, V) == Len(H) < 2 \/ Len(V) < 2

(* detect_table lines 221-237. *)
BuildTable(H, V, width, height) ==
    IF NotEnoughLines(H, V)
    THEN None
    ELSE Some(TableGrid([i \in 1..Len(H) |-> <<0, H[i], width, H[i]>>],
                        [i \in 1..Len(V) |-> <<V[i], 0, V[i], height>>],
                        extract_cells_from_grid(H, V)))

(* One iteration of find_line_positions' loop over the contours. *)
FindContour ==
    /\ UNCHANGED notG
    /\ gpc \in {"h_contours", "v_contours"}
    /\ Len(positions) < MaxContours
    /\ LET is_horizontal == gpc = "h_contours"
           min_length == MinLength(IF is_horizontal THEN ImgWidth ELSE ImgHeight)
       IN  \E rect \in Contours(is_horizontal) :
               positions' = AppendLinePosition(positions, rect, is_horizontal, min_length)
    /\ UNCHANGED <<gpc, filtered, horizontal_positions, vertical_positions, table>>

(* The end of find_line_positions: sort, collapse, return. *)
FilterLines ==
    /\ UNCHANGED notG
    /\ gpc \in {"h_contours", "v_contours"}
    /\ filtered' = FilterPositions(positions)
    /\ gpc' = IF gpc = "h_contours" THEN "h_filtered" ELSE "v_filtered"
    /\ UNCHANGED <<positions, horizontal_positions, vertical_positions, table>>

(* detect_table lines 207-216: the horizontal result is kept and the       *)
(* vertical call starts.                                                   *)
StartVertical ==
    /\ UNCHANGED notG
    /\ gpc = "h_filtered"
    /\ horizontal_positions' = filtered
    /\ positions' = <<>>
    /\ filtered' = <<>>
    /\ gpc' = "v_contours"
    /\ UNCHANGED <<vertical_positions, table>>

(* detect_table lines 212-237. *)
BuildGrid ==
    /\ UNCHANGED notG
    /\ gpc = "v_filtered"
    /\ vertical_positions' = filtered
    /\ table' = BuildTable(horizontal_positions, filtered, ImgWidth, ImgHeight)
    /\ gpc' = "done"
    /\ UNCHANGED <<positions, filtered, horizontal_positions>>

(* detect_table is entered: the horizontal call starts. *)
GStart ==
    /\ gpc = "h_contours"
    /\ positions = <<>>
    /\ filtered = <<>>
    /\ horizontal_positions = <<>>
    /\ vertical_positions = <<>>
    /\ table = None

GIdle ==
    /\ gpc = "idle"
    /\ positions = <<>>
    /\ filtered = <<>>
    /\ horizontal_positions = <<>>
    /\ vertical_positions = <<>>
    /\ table = None

----------------------------------------------------------------------------
(* ocr_engine.py: text, as sequences of one-character strings              *)

UpperCase ==
    <<"A", "B", "C", "D", "E", "F", "G", "H", "I", "J", "K", "L", "M", "N", "O", "P",
      "Q", "R", "S", "T", "U", "V", "W", "X", "Y", "Z">>
LowerCase ==
    <<"a", "b", "c", "d", "e", "f", "g", "h", "i", "j", "k", "l", "m", "n", "o", "p",
      "q", "r", "s", "t", "u", "v", "w", "x", "y", "z">>
Digits == {"0", "1", "2", "3", "4", "5", "6", "7", "8", "9"}
(* Characters outside 0-9 for which str.isdigit is true: "sup2" stands for *)
(* SUPERSCRIPT TWO, "ar3" for ARABIC-INDIC DIGIT THREE.                    *)
OtherDigits == {"sup2", "ar3"}
Whitespace == {" ", "\t", "\n", "\r", "\f"}

IsAlpha(c) == c \in Range(UpperCase) \cup Range(LowerCase)
IsDigit(c) == c \in Digits \cup OtherDigits
IsSpace(c) == c \in Whitespace

(* str.lower on one character *)
ToLower(c) ==
    IF c \in Range(UpperCase)
    THEN LowerCase[CHOOSE i \in 1..Len(UpperCase) : UpperCase[i] = c]
    ELSE c
Lower(t) == [i \in 1..Len(t) |-> ToLower(t[i])]

(* str.strip *)
RECURSIVE LStrip(_)
LStrip(t) == IF t # <<>> /\ IsSpace(Head(t)) THEN LStrip(Tail(t)) ELSE t
RECURSIVE RStrip(_)
RStrip(t) ==
    IF t # <<>> /\ IsSpace(t[Len(t)]) THEN RStrip(SubSeq(t, 1, Len(t) - 1)) ELSE t
Strip(t) == RStrip(LStrip(t))

(* str.split(): the maximal runs of non-whitespace characters *)
RECURSIVE SplitFrom(_, _, _)
SplitFrom(t, word, acc) ==
    IF t = <<>>
    THEN IF word = <<>> THEN acc ELSE Append(acc, word)
    ELSE IF IsSpace(Head(t))
         THEN SplitFrom(Tail(t), <<>>, IF word = <<>> THEN acc ELSE Append(acc, word))
         ELSE SplitFrom(Tail(t), Append(word, Head(t)), acc)
Split(t) == SplitFrom(t, <<>>, <<>>)

CountIf(t, Test(_)) == Cardinality({i \in 1..Len(t) : Test(t[i])})

(* is_player_name lines 86-92 *)
banned_keywords ==
    {<<"h", "a", "n", "d", "i", "c", "a", "p">>,
     <<"h", "c", "p">>,
     <<"h", "d", "c", "p">>,
     <<"s", "l", "o", "p", "e">>,
     <<"r", "a", "t", "i", "n", "g">>,
     <<"p", "a", "r">>,
     <<"b", "l", "u", "e">>,
     <<"w", "h", "i", "t", "e">>,
     <<"g", "r", "e", "e", "n">>,
     <<"r", "e", "d">>,
     <<"g", "o", "l", "d">>,
     <<"b", "l", "a", "c", "k">>,
     <<"y", "a", "r", "d", "s">>,
     <<"y", "a", "r", "d", "a", "g", "e">>,
     <<"t", "e", "e">>,
     <<"t", "e", "e", "s">>,
     <<"h", "o", "l", "e">>,
     <<"t", "o", "t", "a", "l">>,
     <<"f", "r", "o", "n", "t">>,
     <<"b", "a", "c", "k">>,
     <<"i", "n">>,
     <<"o", "u", "t">>,
     <<"g", "r", "o", "s", "s">>,
     <<"n", "e", "t">>,
     <<"s", "c", "o", "r", "e">>,
     <<"t", "e", "a", "m">>,
     <<"d", "a", "t", "e">>,
     <<"s", "c", "o", "r", "e", "r">>,
     <<"a", "t", "t", "e", "s", "t">>,
     <<"i", "n", "i", "t", "i", "a", "l", "s">>}

(* is_player_name line 123; "(c)" stands for the copyright sign *)
rare_chars ==
    {"@", "(c)", "#", "$", "%", "^", "&", "*", "=", "+", "[", "]", "{", "}", "|", "\\",
     "<", ">", "_"}

is_player_name_HeaderOnly(text, row_index) ==
    IF text = None \/ Len(text[1]) < 2 THEN FALSE
    ELSE IF row_index < 5 THEN FALSE
    ELSE LET t == text[1]
             words == Split(Lower(Strip(t)))
             letter_count == CountIf(t, IsAlpha)
             digit_count == CountIf(t, IsDigit)
         IN  IF \E i \in 1..Len(words) : words[i] \in banned_keywords THEN FALSE
             ELSE IF letter_count < 2 THEN FALSE
             ELSE IF Len(t) > 25 THEN FALSE
             ELSE IF Len(words) > 3 THEN FALSE
             ELSE IF digit_count > letter_count THEN FALSE
             ELSE IF \E i \in 1..Len(t) : t[i] \in rare_chars THEN FALSE
             ELSE TRUE

(* is_player_name: text is None or Some(characters). *)
is_player_name(text, row_index) ==
    IF text = None \/ Len(text[1]) < 2 THEN FALSE
    ELSE IF row_index < 5 \/ row_index > 15 THEN FALSE
    ELSE LET t == text[1]
             words == Split(Lower(Strip(t)))
             letter_count == CountIf(t, IsAlpha)
             digit_count == CountIf(t, IsDigit)
         IN  IF \E i \in 1..Len(words) : words[i] \in banned_keywords THEN FALSE
             ELSE IF letter_count < 2 THEN FALSE
             ELSE IF Len(t) > 25 THEN FALSE
             ELSE IF Len(words) > 3 THEN FALSE
             ELSE IF digit_count > letter_count THEN FALSE
             ELSE IF \E i \in 1..Len(t) : t[i] \in rare_chars THEN FALSE
             ELSE TRUE

ocr_cell_name_KeepEmpty(raw) ==
    IF raw = None THEN None ELSE Some(Strip(raw[1]))

(* ocr_cell, name mode (lines 371-379): the recogniser's output stripped,  *)
(* None when nothing is left; raw = None stands for an exception inside    *)
(* the recogniser, which ocr_cell catches.                                 *)
ocr_cell_name(raw) ==
    IF raw = None THEN None
    ELSE IF Strip(raw[1]) = <<>> THEN None ELSE Some(Strip(raw[1]))

(* What the recogniser can return for a name cell. *)
RecognisedTexts ==
    {<<"B", "r", "a", "d", " ", "D", "\n">>,
     <<"H", "A", "N", "D", "I", "C", "A", "P">>,
     <<"4", "7">>,
     <<"A">>,
     <<" ", "K", "y", "l", "e", "\n">>,
     <<"\n">>}

(* ocr_cell, score mode (lines 365-370, 377-379): the recogniser's output *)
(* stripped and filtered.                                                  *)
ocr_cell_score(raw) ==
    IF raw = None THEN None
    ELSE LET text == SelectSeq(Strip(raw[1]),
                               LAMBDA c : IsDigit(c) \/ c \in {"(", ")"})
         IN  IF text = <<>> THEN None ELSE Some(text)

(* Cutting out or preprocessing a cell raised (extract_cell_inflated,      *)
(* preprocess_name_cell, preprocess_score_cell).                           *)
CellError == <<"cell", "error">>

(* The scorecards handed to extract_scorecard_data. *)
HeaderLabels ==
    <<<<"H", "O", "L", "E">>,
      <<"B", "l", "u", "e">>,
      <<"W", "h", "i", "t", "e">>,
      <<"H", "A", "N", "D", "I", "C", "A", "P">>,
      <<"P", "A", "R">>,
      <<"R", "e", "d">>>>
PlayerFixtures ==
    <<<<"B", "r", "a", "d", " ", "D">>,
      <<"K", "y", "l", "e">>,
      <<"S", "a", "m", " ", "W">>,
      <<"J", "o", " ", "A", "n", "n">>>>
DigitChars == <<"0", "1", "2", "3", "4", "5", "6", "7", "8", "9">>

(* The text printed in a cell of a clean scorecard. *)
PrintedClean(header, row, col) ==
    IF col = 0
    THEN IF row < header
         THEN HeaderLabels[(row % Len(HeaderLabels)) + 1]
         ELSE PlayerFixtures[((row - header) % Len(PlayerFixtures)) + 1]
    ELSE <<DigitChars[((row + col) % 10) + 1]>>

(* The ways one cell of the image can be out of the ordinary: nothing      *)
(* printed and nothing recognised, nothing printed and grid-line remnants  *)
(* recognised, the recogniser raising, the cut-out or preprocessing        *)
(* raising.                                                                *)
SpecialKinds == {"empty", "noise", "ocr_error", "cell_error"}

NoSpecial == [row |-> -1, col |-> -1, kind |-> "none"]

(* The text printed in the cell (row, col) of the image. *)
Printed(row, col) ==
    IF /\ scorecard.special.row = row
       /\ scorecard.special.col = col
       /\ scorecard.special.kind \in {"empty", "noise"}
    THEN <<>>
    ELSE PrintedClean(scorecard.header, row, col)

(* What cutting out, preprocessing and recognising the cell gives. *)
Reading(row, col) ==
    IF scorecard.special.row = row /\ scorecard.special.col = col
    THEN CASE scorecard.special.kind = "empty" -> Some(<<>>)
           [] scorecard.special.kind = "noise" -> Some(<<"|", "1", "\n">>)
           [] scorecard.special.kind = "ocr_error" -> None
           [] scorecard.special.kind = "cell_error" -> CellError
    ELSE Some(PrintedClean(scorecard.header, row, col) \o <<"\n">>)

(* What handling the cell (row, col) gives: CellError, None (the           *)
(* recogniser raised) or Some(the recogniser's output).  Without a         *)
(* reading of the image, anything.                                         *)
Outcomes(row, col) ==
    IF scorecard = <<>>
    THEN {CellError, None} \cup {Some(t) : t \in RecognisedTexts}
    ELSE {Reading(row, col)}

----------------------------------------------------------------------------
(* ocr_engine.py: detect_player_rows (Pass 1)                              *)

(* Bounds: the grids handed to Pass 1. *)
MaxRows == 7
MaxCols == 5

(* The column widths of a grid: at the width threshold or just above it. *)
ColumnWidths == UNION {[1..n -> {80, 81}] : n \in 1..MaxCols}

RECURSIVE Sum(_, _)
Sum(q, n) == IF n = 0 THEN 0 ELSE q[n] + Sum(q, n - 1)

(* The cells of a grid of nr rows of height 30 with the given column       *)
(* widths, as extract_cells_from_grid builds them.                         *)
GridCells(nr, widths) ==
    extract_cells_from_grid([i \in 1..(nr + 1) |-> 30 * (i - 1)],
                            [i \in 1..(Len(widths) + 1) |-> Sum(widths, i - 1)])

(* Line 20. *)
WideCells(cs) ==
    SelectSeq(cs, LAMBDA c : c.col \in {0, 1, 2, 3} /\ c.width > 80)

RECURSIVE RowsDictRightmost(_, _)
RowsDictRightmost(wide, d) ==
    IF wide = <<>> THEN d
    ELSE LET cell == Head(wide)
         IN  RowsDictRightmost(Tail(wide),
                IF cell.row \notin DOMAIN d \/ cell.col > d[cell.row].col
                THEN [r \in DOMAIN d \cup {cell.row} |->
                        IF r = cell.row THEN cell ELSE d[r]]
                ELSE d)

(* Lines 24-27: the leftmost wide cell of every row, as a dict row -> cell. *)
RECURSIVE RowsDict(_, _)
RowsDict(wide, d) ==
    IF wide = <<>> THEN d
    ELSE LET cell == Head(wide)
         IN  RowsDict(Tail(wide),
                IF cell.row \notin DOMAIN d \/ cell.col < d[cell.row].col
                THEN [r \in DOMAIN d \cup {cell.row} |->
                        IF r = cell.row THEN cell ELSE d[r]]
                ELSE d)

EmptyDict == [r \in {} |-> 0]

SortedByRowDescending(d) ==
    LET rows == SortedSeq(DOMAIN d)
    IN  [i \in 1..Len(rows) |-> d[rows[Len(rows) + 1 - i]]]

(* Line 34: sorted(rows_dict.values(), key=lambda c: c.row) *)
SortedByRow(d) == LET rows == SortedSeq(DOMAIN d) IN [i \in 1..Len(rows) |-> d[rows[i]]]

(* Lines 19-32: the candidates. *)
Pass1Start ==
    /\ UNCHANGED notO
    /\ opc = "start"
    /\ rows_dict' = RowsDict(WideCells(cells), EmptyDict)
    /\ queue' = SortedByRow(rows_dict')
    /\ opc' = "loop"
    /\ UNCHANGED <<cells, player_rows, player_names, examined, scorecard,
                   recognised, pass2_rows, row_values, pass2_player_data, extracted>>

(* Lines 34-61: one iteration of the loop, on the recogniser's output raw; *)
(* an error while cutting out or preprocessing the cell leaves the         *)
(* function.                                                               *)
ExamineCell ==
    /\ UNCHANGED notO
    /\ opc = "loop"
    /\ queue # <<>>
    /\ LET cell == Head(queue) IN
       \E out \in Outcomes(cell.row, cell.col) :
          IF out = CellError
          THEN /\ opc' = "raised"
               /\ UNCHANGED <<queue, player_rows, player_names, examined, recognised>>
          ELSE LET text == ocr_cell_name(out) IN
               /\ examined' = Append(examined, [row |-> cell.row, col |-> cell.col])
               /\ recognised' = recognised \cup {<<1, cell.row, cell.col>>}
               /\ IF is_player_name(text, cell.row)
                  THEN /\ player_rows' = Append(player_rows, cell.row)
                       /\ player_names' = Append(player_names, text[1])
                  ELSE UNCHANGED <<player_rows, player_names>>
               /\ queue' = Tail(queue)
               /\ UNCHANGED opc
    /\ UNCHANGED <<cells, rows_dict, scorecard, pass2_rows, row_values,
                   pass2_player_data, extracted>>

(* Lines 63-69: the return. *)
Pass1Return ==
    /\ UNCHANGED notO
    /\ opc = "loop"
    /\ queue = <<>>
    /\ opc' = "returned"
    /\ UNCHANGED <<cells, rows_dict, queue, player_rows, player_names, examined,
                   scorecard, recognised, pass2_rows, row_values,
                   pass2_player_data, extracted>>

(* detect_player_rows is entered with the cells of a grid. *)
OStart ==
    /\ opc = "start"
    /\ \E nr \in 1..MaxRows, widths \in ColumnWidths : cells = GridCells(nr, widths)
    /\ rows_dict = EmptyDict
    /\ queue = <<>>
    /\ player_rows = <<>>
    /\ player_names = <<>>
    /\ examined = <<>>
    /\ scorecard = <<>>
    /\ recognised = {}
    /\ pass2_rows = <<>>
    /\ row_values = <<>>
    /\ pass2_player_data = <<>>
    /\ extracted = None

OIdle ==
    /\ opc = "idle"
    /\ cells = <<>>
    /\ rows_dict = EmptyDict
    /\ queue = <<>>
    /\ player_rows = <<>>
    /\ player_names = <<>>
    /\ examined = <<>>
    /\ scorecard = <<>>
    /\ recognised = {}
    /\ pass2_rows = <<>>
    /\ row_values = <<>>
    /\ pass2_player_data = <<>>
    /\ extracted = None

----------------------------------------------------------------------------
(* ocr_engine.py: extract_player_rows (Pass 2) and extract_scorecard_data  *)

(* find_cell (lines 430-432): the first cell at (row, col), or None. *)
find_cell(cs, row, col) ==
    LET found == {i \in 1..Len(cs) : cs[i].row = row /\ cs[i].col = col}
    IN  IF found = {} THEN None ELSE Some(cs[SetMin(found)])

max_col_exclusive == SetMax({cells[i].col : i \in 1..Len(cells)}) - 1

(* extract_player_rows line 139 *)
max_col == SetMax({cells[i].col : i \in 1..Len(cells)})

UnknownName == <<"U", "n", "k", "n", "o", "w", "n">>

(* extract_scorecard_data lines 448-453 and extract_player_rows lines      *)
(* 139-140: Pass 1 has returned, Pass 2 is entered; max() of no cells      *)
(* raises.                                                                 *)
Pass2Start ==
    /\ UNCHANGED notO
    /\ opc = "returned"
    /\ IF cells = <<>>
       THEN /\ opc' = "raised"
            /\ UNCHANGED pass2_rows
       ELSE /\ opc' = "pass2"
            /\ pass2_rows' = player_rows
    /\ UNCHANGED <<cells, rows_dict, queue, player_rows, player_names, examined,
                   scorecard, recognised, row_values, pass2_player_data,
                   extracted>>

(* extract_player_rows lines 146-163: one iteration of the inner loop. *)
ExtractScoreCell ==
    /\ UNCHANGED notO
    /\ opc = "pass2"
    /\ pass2_rows # <<>>
    /\ Len(row_values) <= max_col
    /\ LET player_row == Head(pass2_rows)
           col == Len(row_values)
           cell == find_cell(cells, player_row, col)
       IN  IF cell = None
           THEN /\ row_values' = Append(row_values, None)
                /\ UNCHANGED <<opc, recognised>>
           ELSE \E out \in Outcomes(player_row, col) :
                   IF out = CellError
                   THEN /\ opc' = "raised"
                        /\ UNCHANGED <<row_values, recognised>>
                   ELSE /\ row_values' = Append(row_values, ocr_cell_score(out))
                        /\ recognised' = recognised \cup {<<2, player_row, col>>}
                        /\ UNCHANGED opc
    /\ UNCHANGED <<cells, rows_dict, queue, player_rows, player_names, examined,
                   scorecard, pass2_rows, pass2_player_data, extracted>>

(* extract_player_rows lines 165-168: the row is complete. *)
FinishRow ==
    /\ UNCHANGED notO
    /\ opc = "pass2"
    /\ pass2_rows # <<>>
    /\ Len(row_values) = max_col + 1
    /\ pass2_player_data' =
           Append(pass2_player_data,
                  [row |-> Head(pass2_rows), all_values |-> row_values])
    /\ pass2_rows' = Tail(pass2_rows)
    /\ row_values' = <<>>
    /\ UNCHANGED <<opc, cells, rows_dict, queue, player_rows, player_names, examined,
                   scorecard, recognised, extracted>>

(* extract_player_rows line 174 and extract_scorecard_data lines 455-465. *)
Combine ==
    /\ UNCHANGED notO
    /\ opc = "pass2"
    /\ pass2_rows = <<>>
    /\ extracted' =
           Some([players |->
                     [i \in 1..Len(pass2_player_data) |->
                         [row |-> pass2_player_data[i].row,
                          name |-> IF i <= Len(player_names)
                                   THEN player_names[i] ELSE UnknownName,
                          all_values |-> pass2_player_data[i].all_values]],
                 total_players |-> Len(pass2_player_data)])
    /\ opc' = "done"
    /\ UNCHANGED <<cells, rows_dict, queue, player_rows, player_names, examined,
                   scorecard, recognised, pass2_rows, row_values,
                   pass2_player_data>>

(* Bounds: the scorecards handed to extract_scorecard_data. *)
MaxHeaderRows == 5
MaxPlayers == 4
MaxScoreCols == 18

(* A scorecard: header rows, then player rows; a name column 200 px wide,  *)
(* then score columns 40 px wide.                                          *)
ScorecardCells(header, players, score_cols) ==
    GridCells(header + players, <<200>> \o [i \in 1..score_cols |-> 40])

(* extract_scorecard_data is entered with a scorecard of which at most one *)
(* cell, in the name column, the first or the last score column, is out   *)
(* of the ordinary.                                                        *)
ScorecardStart ==
    /\ opc = "start"
    /\ \E header \in 0..MaxHeaderRows, players \in 0..MaxPlayers,
          score_cols \in {1, MaxScoreCols} :
          /\ header + players >= 1
          /\ cells = ScorecardCells(header, players, score_cols)
          /\ \E special \in {NoSpecial} \cup
                    [row : 0..(header + players - 1), col : {0, 1, score_cols},
                     kind : SpecialKinds] :
                scorecard = [header |-> header, special |-> special]
    /\ rows_dict = EmptyDict
    /\ queue = <<>>
    /\ player_rows = <<>>
    /\ player_names = <<>>
    /\ examined = <<>>
    /\ recognised = {}
    /\ pass2_rows = <<>>
    /\ row_values = <<>>
    /\ pass2_player_data = <<>>
    /\ extracted = None

(* Bound: the rows of the tall grids handed to Pass 1. *)
MaxTallRows == 18

(* detect_player_rows is entered with the name column of a tall scorecard:  *)
(* header rows, then a name in every row down to the bottom of the grid,    *)
(* at most one cell out of the ordinary.                                    *)
TallStart ==
    /\ opc = "start"
    /\ \E nr \in 1..MaxTallRows, header \in 0..MaxHeaderRows :
          /\ cells = GridCells(nr, <<200>>)
          /\ \E special \in {NoSpecial} \cup
                    [row : 0..(nr - 1), col : {0}, kind : SpecialKinds] :
                scorecard = [header |-> header, special |-> special]
    /\ rows_dict = EmptyDict
    /\ queue = <<>>
    /\ player_rows = <<>>
    /\ player_names = <<>>
    /\ examined = <<>>
    /\ recognised = {}
    /\ pass2_rows = <<>>
    /\ row_values = <<>>
    /\ pass2_player_data = <<>>
    /\ extracted = None

----------------------------------------------------------------------------
(* Step 7 of concurrent process_scorecard runs: the debug images that      *)
(* ocr_engine.save_debug_image writes to /tmp and                          *)
(* scorecard_service.upload_debug_images collects.  The grids have fewer   *)
(* than 6 rows, so Pass 1 accepts no row and Pass 2 writes no image.       *)

(* Bounds: the runs and the candidate rows of their grids. *)
NumRuns == 2
MaxDebugRows == 2

Runs == 1..NumRuns

(* The debug images of Pass 1, numbered in the order of their names:       *)
(* 2 * row is name_row{row}_1_RAW, 2 * row + 1 is name_row{row}_2_PROCESSED. *)
DebugFiles == 0..(2 * MaxDebugRows - 1)

(* save_debug_image line 438: the path depends on the row alone. *)
DebugPath(f) ==
    "/tmp/debug_name_row" \o ToString(f \div 2)
        \o (IF f % 2 = 0 THEN "_1_RAW" ELSE "_2_PROCESSED") \o ".png"

(* save_debug_image: cv2.imwrite replaces whatever is at the path. *)
WriteFiles(run, files) ==
    /\ tmp' = [f \in DebugFiles |-> IF f \in files THEN run ELSE tmp[f]]
    /\ overwrote' = overwrote \cup
           {<<run, f, tmp[f]>> : f \in {g \in files : tmp[g] \notin {0, run}}}

(* detect_player_rows lines 34-61 in one run: one iteration of the loop    *)
(* saves the RAW image, preprocesses, saves the PROCESSED image; an error  *)
(* while preprocessing leaves extract_scorecard_data, and the except       *)
(* branch of step 7 (lines 276-283) skips upload_debug_images.             *)
CExamine(run) ==
    /\ UNCHANGED notC
    /\ cpc[run] = "ocr"
    /\ crow[run] < cnr[run]
    /\ \/ /\ WriteFiles(run, {2 * crow[run], 2 * crow[run] + 1})
          /\ crow' = [crow EXCEPT ![run] = @ + 1]
          /\ UNCHANGED cpc
       \/ /\ WriteFiles(run, {2 * crow[run]})
          /\ cpc' = [cpc EXCEPT ![run] = "failed"]
          /\ UNCHANGED crow
    /\ UNCHANGED <<cnr, debug_files, uploaded, removed>>

(* upload_debug_images line 30 and the sort of line 35. *)
CGlob(run) ==
    /\ UNCHANGED notC
    /\ cpc[run] = "ocr"
    /\ crow[run] = cnr[run]
    /\ debug_files' = [debug_files EXCEPT
                          ![run] = SortedSeq({f \in DebugFiles : tmp[f] # 0})]
    /\ cpc' = [cpc EXCEPT ![run] = "upload"]
    /\ UNCHANGED <<tmp, cnr, crow, uploaded, removed, overwrote>>

(* upload_debug_images lines 35-59: one iteration; a missing file or a     *)
(* failed upload is caught and the loop goes on.                           *)
CUpload(run) ==
    /\ UNCHANGED notC
    /\ cpc[run] = "upload"
    /\ debug_files[run] # <<>>
    /\ LET f == Head(debug_files[run]) IN
       /\ debug_files' = [debug_files EXCEPT ![run] = Tail(@)]
       /\ \/ /\ tmp[f] # 0
             /\ uploaded' = [uploaded EXCEPT ![run] = @ \cup {<<f, tmp[f]>>}]
             /\ removed' = [removed EXCEPT ![run] = @ \cup {<<f, tmp[f]>>}]
             /\ tmp' = [tmp EXCEPT ![f] = 0]
          \/ UNCHANGED <<tmp, uploaded, removed>>
    /\ UNCHANGED <<cpc, cnr, crow, overwrote>>

(* upload_debug_images line 61. *)
CReturn(run) ==
    /\ UNCHANGED notC
    /\ cpc[run] = "upload"
    /\ debug_files[run] = <<>>
    /\ cpc' = [cpc EXCEPT ![run] = "done"]
    /\ UNCHANGED <<tmp, cnr, crow, debug_files, uploaded, removed, overwrote>>

(* Every run is about to start step 7 on its own grid; /tmp is empty. *)
CStart ==
    /\ tmp = [f \in DebugFiles |-> 0]
    /\ cpc = [run \in Runs |-> "ocr"]
    /\ cnr \in [Runs -> 1..MaxDebugRows]
    /\ crow = [run \in Runs |-> 0]
    /\ debug_files = [run \in Runs |-> <<>>]
    /\ uploaded = [run \in Runs |-> {}]
    /\ removed = [run \in Runs |-> {}]
    /\ overwrote = {}

CIdle ==
    /\ tmp = <<>>
    /\ cpc = <<>>
    /\ cnr = <<>>
    /\ crow = <<>>
    /\ debug_files = <<>>
    /\ uploaded = <<>>
    /\ removed = <<>>
    /\ overwrote = {}

----------------------------------------------------------------------------
(* Calls of a single function on arguments drawn from bounded sets         *)

Pending == <<"pending">>
Returned(v) == <<"returned", v>>
RaisedError == <<"raised">>

FIdle ==
    /\ call = <<>>
    /\ result = <<>>

(* Bounds: the texts and row indexes is_player_name is called on. *)
MaxTextLen == 3
MaxRowIndex == 17

NameAlphabet == {"I", "n", "a", "4", " ", "_"}

RECURSIVE TextsUpTo(_, _)
TextsUpTo(alphabet, n) ==
    IF n = 0 THEN {<<>>}
    ELSE LET shorter == TextsUpTo(alphabet, n - 1)
         IN  shorter \cup {Append(t, c) : t \in shorter, c \in alphabet}

NameFixtures ==
    {<<"B", "r", "a", "d", " ", "D">>,
     <<"H", "A", "N", "D", "I", "C", "A", "P">>,
     <<"4", "7">>,
     <<"A">>,
     <<"F", "r", "e", "d">>,
     <<"M", "a", "r", "t", "i", "n">>,
     <<"S", "t", "e", "e", "l", "e">>,
     <<"a", "b", "1", "2", "3">>,
     <<"a", "b", "1", "2">>,
     <<"a", "b", " ", "c", " ", "d", " ", "e">>,
     <<"a", "b", " ", "c", " ", "d">>,
     <<"K", "y", "\t", "P", "a", "r">>,
     <<"A", "b", "c", "d", "e", "f", "g", "h", "i", "j", "k", "l", "m", "n", "o", "p", "q", "r", "s", "t", "u", "v", "w", "x", "y">>,
     <<"A", "b", "c", "d", "e", "f", "g", "h", "i", "j", "k", "l", "m", "n", "o", "p", "q", "r", "s", "t", "u", "v", "w", "x", "y", "z">>}

NameTexts == TextsUpTo(NameAlphabet, MaxTextLen) \cup NameFixtures

IsPlayerNameStart ==
    /\ \E t \in {None} \cup {Some(x) : x \in NameTexts}, r \in 0..MaxRowIndex :
          call = [fn |-> "is_player_name", text |-> t, row_index |-> r]
    /\ result = Pending

(* is_player_name(text, row_index) *)
IsPlayerNameCall ==
    /\ UNCHANGED notF
    /\ call # <<>>
    /\ call.fn = "is_player_name"
    /\ result = Pending
    /\ result' = Returned(is_player_name(call.text, call.row_index))
    /\ UNCHANGED call

(* Bound: the length of the texts the recogniser returns to ocr_cell. *)
MaxRawLen == 3

RawAlphabet == {"4", "(", ")", " ", "\n", "a", "sup2"}

RawTexts == TextsUpTo(RawAlphabet, MaxRawLen)

OcrCellStart ==
    /\ \E raw \in {None} \cup {Some(x) : x \in RawTexts}, mode \in {"score", "name"} :
          call = [fn |-> "ocr_cell", raw |-> raw, mode |-> mode]
    /\ result = Pending

(* ocr_cell(cell_img, mode), on what the recogniser gives for cell_img *)
OcrCellCall ==
    /\ UNCHANGED notF
    /\ call # <<>>
    /\ call.fn = "ocr_cell"
    /\ result = Pending
    /\ result' = Returned(IF call.mode = "score"
                          THEN ocr_cell_score(call.raw)
                          ELSE ocr_cell_name(call.raw))
    /\ UNCHANGED call

(* Bound: the height and width of the images encoded and decoded. *)
MaxDim == 3

RoundTripImages ==
    [src : 1..NumInputs, ops : {<<>>}, channels : {1, 3},
     height : 1..MaxDim, width : 1..MaxDim]

RoundTripStart ==
    /\ \E im \in RoundTripImages, format \in {"PNG", "JPEG"} :
          call = [fn |-> "image_to_bytes", img |-> im, format |-> format]
    /\ result = Pending

(* image_to_bytes(img, format) *)
EncodeCall ==
    /\ UNCHANGED notF
    /\ call # <<>>
    /\ call.fn = "image_to_bytes"
    /\ result = Pending
    /\ result' = Returned(image_to_bytes(call.img, call.format))
    /\ UNCHANGED call

(* bytes_to_image on the bytes image_to_bytes returned for img *)
DecodeCall ==
    /\ UNCHANGED notF
    /\ call # <<>>
    /\ call.fn = "image_to_bytes"
    /\ result # Pending
    /\ call' = [fn |-> "bytes_to_image", image_bytes |-> result[2],
                original |-> call.img, format |-> call.format]
    /\ result' = IF CanDecode(result[2])
                 THEN Returned(bytes_to_image(result[2]))
                 ELSE RaisedError

(* Bound: the images grayscale and deskew are called on. *)
NumImages == 20

CallImages == [src : 1..NumImages, ops : {<<>>}, channels : {1, 3, 4}]

(* grayscale (lines 35-45): cv2.cvtColor with COLOR_BGR2GRAY takes 3 or 4  *)
(* channels and raises on any other input.                                 *)
grayscale(im) ==
    IF im.channels \in {3, 4}
    THEN Returned([img |-> ApplyOp(im, "grayscale"),
                   data |-> [original_channels |-> im.channels,
                             output_channels |-> 1]])
    ELSE RaisedError

GrayscaleStart ==
    /\ \E im \in CallImages : call = [fn |-> "grayscale", img |-> im]
    /\ result = Pending

GrayscaleCall ==
    /\ UNCHANGED notF
    /\ call # <<>>
    /\ call.fn = "grayscale"
    /\ result = Pending
    /\ result' = grayscale(call.img)
    /\ UNCHANGED call

(* _find_best_rotation_angle lines 286-309: the angles tested, in quarters *)
(* of a degree (angle_step = 0.25), from -angle_range to +angle_range.     *)
angle_range == 10

angles == [i \in 1..(2 * 4 * angle_range + 1) |-> (i - 1) - 4 * angle_range]

(* deskew (lines 203-255) on the image and the index of the angle of       *)
(* maximum variance; the image returned is the input rotated by rotation   *)
(* quarters of a degree (0: the input itself).                             *)
deskew(im, best_idx) ==
    LET best_angle == angles[best_idx]
    IN  IF Abs(best_angle) < 2
        THEN Returned([img |-> im, rotation |-> 0,
                       data |-> [rotation_angle |-> best_angle, skipped |-> TRUE]])
        ELSE Returned([img |-> im, rotation |-> best_angle,
                       data |-> [rotation_angle |-> best_angle, skipped |-> FALSE]])

DeskewStart ==
    /\ \E im \in CallImages, best_idx \in 1..Len(angles) :
          call = [fn |-> "deskew", img |-> im, best_idx |-> best_idx]
    /\ result = Pending

DeskewCall ==
    /\ UNCHANGED notF
    /\ call # <<>>
    /\ call.fn = "deskew"
    /\ result = Pending
    /\ result' = deskew(call.img, call.best_idx)
    /\ UNCHANGED call

(* game_modes.py: the totals of one player and the stroke-play winner.     *)

(* schemas/scorecard.py line 13: a Player has exactly 18 scores. *)
NumHoles == 18

(* Bounds: the scores written on a card, the totals compared and the       *)
(* number of players listed.                                               *)
MaxScore == 2
MaxTotal == 2
MaxListed == 3

(* sum(...) of a list of integers. *)
RECURSIVE SumOf(_)
SumOf(q) == IF q = <<>> THEN 0 ELSE Head(q)[1] + SumOf(Tail(q))

(* calculate_totals lines 22, 34, 39: [s for s in ... if s is not None] *)
valid_scores(scores) == SelectSeq(scores, LAMBDA s : s # None)

(* calculate_totals lines 23, 35, 40: sum(valid) if valid else None *)
SumOrNone(valid) == IF valid = <<>> THEN None ELSE Some(SumOf(valid))

(* Python slice scores[lo:hi] (0-based, hi exclusive, clipped). *)
Slice(scores, lo, hi) ==
    SubSeq(scores, lo + 1, IF hi < Len(scores) THEN hi ELSE Len(scores))

front_nine(scores) == Slice(scores, 0, 9)

back_nine_overlapping(scores) == Slice(scores, 8, 18)

back_nine(scores) == Slice(scores, 9, 18)

calculate_totals(player) ==
    LET scores == player.scores
        num_holes == Len(scores)
        total == SumOrNone(valid_scores(scores))
    IN  IF num_holes = 9
        THEN [player EXCEPT !.total = total,
                            !.front_nine_total = total,
                            !.back_nine_total = None]
        ELSE [player EXCEPT
                 !.total = total,
                 !.front_nine_total = SumOrNone(valid_scores(front_nine(scores))),
                 !.back_nine_total = SumOrNone(valid_scores(back_nine(scores)))]

(* Player(name=..., scores=...): the totals default to None. *)
Player(name, scores) ==
    [name |-> name, scores |-> scores, total |-> None,
     front_nine_total |-> None, back_nine_total |-> None]

ScoreValues == {None} \cup {Some(v) : v \in 0..MaxScore}

(* Cards of 18 holes: one value everywhere but on two holes. *)
ScoreLists ==
    {[h \in 1..NumHoles |-> IF h = a THEN va ELSE IF h = b THEN vb ELSE rest] :
        a \in 1..NumHoles, b \in 1..NumHoles,
        va \in ScoreValues, vb \in ScoreValues,
        rest \in {None, Some(MaxScore)}}

CalculateTotalsStart ==
    /\ \E scores \in ScoreLists :
          call = [fn |-> "calculate_totals", player |-> Player("Kyle", scores)]
    /\ result = Pending

CalculateTotalsCall ==
    /\ UNCHANGED notF
    /\ call # <<>>
    /\ call.fn = "calculate_totals"
    /\ result = Pending
    /\ result' = Returned(calculate_totals(call.player))
    /\ UNCHANGED call

(* min(valid_players, key=lambda p: p.total): the first of the smallest. *)
RECURSIVE MinByTotal(_, _)
MinByTotal(q, best) ==
    IF q = <<>> THEN best
    ELSE MinByTotal(Tail(q),
                    IF Head(q).total[1] < best.total[1] THEN Head(q) ELSE best)

calculate_stroke_play_winner_first(players) ==
    LET valid_players == SelectSeq(players, LAMBDA p : p.total # None)
    IN  IF valid_players = <<>>
        THEN None
        ELSE Some(Head(valid_players).name)

calculate_stroke_play_winner(players) ==
    LET valid_players == SelectSeq(players, LAMBDA p : p.total # None)
    IN  IF valid_players = <<>>
        THEN None
        ELSE Some(MinByTotal(Tail(valid_players), Head(valid_players)).name)

(* process_players lines 79-84 *)
process_players(players) ==
    LET players_with_totals == [i \in 1..Len(players) |-> calculate_totals(players[i])]
    IN  [players |-> players_with_totals,
         winner |-> calculate_stroke_play_winner(players_with_totals)]

ListedNames == {"Brad", "Kyle", "Sam"}

ListedTotals == {None} \cup {Some(t) : t \in 1..MaxTotal}

ListedPlayers ==
    {[name |-> n, total |-> t] : n \in ListedNames, t \in ListedTotals}

RECURSIVE ListsUpTo(_, _)
ListsUpTo(S, n) ==
    IF n = 0 THEN {<<>>}
    ELSE LET shorter == ListsUpTo(S, n - 1)
         IN  shorter \cup {Append(q, x) : q \in shorter, x \in S}

WinnerStart ==
    /\ \E players \in ListsUpTo(ListedPlayers, MaxListed) :
          call = [fn |-> "calculate_stroke_play_winner", players |-> players]
    /\ result = Pending

WinnerCall ==
    /\ UNCHANGED notF
    /\ call # <<>>
    /\ call.fn = "calculate_stroke_play_winner"
    /\ result = Pending
    /\ result' = Returned(calculate_stroke_play_winner(call.players))
    /\ UNCHANGED call


----------------------------------------------------------------------------
(* routers/scorecard.py: the two routes of the API                         *)

RIdle ==
    /\ rpc = "idle"
    /\ request = <<>>
    /\ s3_objects = {}
    /\ raw_data = None
    /\ upload_players = <<>>
    /\ upload_winner = None
    /\ response = None

(* Bound: the number of players the extraction service returns. *)
MaxRawPlayers == 2

(* str.startswith *)
StartsWith(t, prefix) ==
    /\ Len(t) >= Len(prefix)
    /\ SubSeq(t, 1, Len(prefix)) = prefix

ContentTypes ==
    {<<"i", "m", "a", "g", "e", "/", "p", "n", "g">>,
     <<"i", "m", "a", "g", "e", "/", "j", "p", "e", "g">>,
     <<"t", "e", "x", "t", "/", "p", "l", "a", "i", "n">>,
     <<"a", "p", "p", "l", "i", "c", "a", "t", "i", "o", "n", "/", "p", "d", "f">>}

(* ExportRequest.format: pattern ^(csv|excel)$ *)
ExportFormats == {"csv", "excel"}

Requests ==
    {[route |-> "upload-and-process", content_type |-> ct] : ct \in ContentTypes}
    \cup {[route |-> "export", format |-> f] : f \in ExportFormats}

RStart ==
    /\ rpc = "received"
    /\ request \in Requests
    /\ s3_objects = {}
    /\ raw_data = None
    /\ upload_players = <<>>
    /\ upload_winner = None
    /\ response = None

(* The exception classes raised in the handlers that derive from           *)
(* ValueError: pydantic's ValidationError does, HTTPException does not.    *)
IsValueError(cls) == cls \in {"ValueError", "ValidationError"}

HTTPException(status_code, detail) ==
    [cls |-> "HTTPException", status_code |-> status_code, detail |-> detail]

Error(cls) == [cls |-> cls, status_code |-> 0, detail |-> cls]

(* What FastAPI sends for an HTTPException that leaves the handler. *)
ErrorResponse(e) == [status_code |-> e.status_code, detail |-> e.detail]

(* upload_and_process_scorecard lines 78-86: the two except clauses. *)
UploadExcept(e) ==
    IF IsValueError(e.cls)
    THEN ErrorResponse(HTTPException(500, "Claude API not configured"))
    ELSE ErrorResponse(HTTPException(500, e.detail))

(* export_scorecard lines 116-118 *)
ExportExcept(e) == ErrorResponse(HTTPException(500, e.detail))

(* lines 21-29 *)
ValidateFileType ==
    /\ UNCHANGED notR
    /\ rpc = "received"
    /\ request.route = "upload-and-process"
    /\ IF ~StartsWith(request.content_type, <<"i", "m", "a", "g", "e", "/">>)
       THEN /\ response' = Some(UploadExcept(HTTPException(400, "File must be an image")))
            /\ rpc' = "responded"
       ELSE /\ rpc' = "upload"
            /\ UNCHANGED response
    /\ UNCHANGED <<request, s3_objects, raw_data, upload_players, upload_winner>>

(* lines 31-42: the key is uploads/{scorecard_id}/{filename} *)
UploadToS3 ==
    /\ UNCHANGED notR
    /\ rpc = "upload"
    /\ \E stored \in BOOLEAN :
          IF stored
          THEN /\ s3_objects' = s3_objects \cup {"uploads"}
               /\ rpc' = "extract"
               /\ UNCHANGED response
          ELSE /\ response' = Some(UploadExcept(Error("ClientError")))
               /\ rpc' = "responded"
               /\ UNCHANGED s3_objects
    /\ UNCHANGED <<request, raw_data, upload_players, upload_winner>>

(* The score lists the extraction service returns for a card of n holes. *)
RawScores(n) ==
    {[h \in 1..n |-> IF h = a THEN None ELSE Some(MaxScore)] : a \in {0, 1}}

RawPlayers(n) ==
    {[name |-> nm, scores |-> sc] : nm \in ListedNames, sc \in RawScores(n)}

(* claude_service.py lines 145-158: cards of 9 or of 18 holes. *)
RawCards ==
    UNION {{[par |-> par, players |-> ps] :
               par \in {None, Some([h \in 1..n |-> 4])},
               ps \in ListsUpTo(RawPlayers(n), MaxRawPlayers)} : n \in {9, NumHoles}}

(* lines 44-48: get_claude_service and extract_scorecard_data *)
ExtractWithClaude ==
    /\ UNCHANGED notR
    /\ rpc = "extract"
    /\ \/ \E cls \in {"ValueError", "APIError"} :
             /\ response' = Some(UploadExcept(Error(cls)))
             /\ rpc' = "responded"
             /\ UNCHANGED raw_data
       \/ \E card \in RawCards :
             /\ raw_data' = Some(card)
             /\ rpc' = "convert"
             /\ UNCHANGED response
    /\ UNCHANGED <<request, s3_objects, upload_players, upload_winner>>

(* Player: scores must have exactly 18 entries (schemas line 13). *)
PlayerIsValid(p) == Len(p.scores) = NumHoles

(* line 51 *)
ConvertPlayers ==
    /\ UNCHANGED notR
    /\ rpc = "convert"
    /\ LET raw == raw_data[1].players
       IN  IF \A i \in 1..Len(raw) : PlayerIsValid(raw[i])
           THEN /\ upload_players' =
                       [i \in 1..Len(raw) |-> Player(raw[i].name, raw[i].scores)]
                /\ rpc' = "process"
                /\ UNCHANGED response
           ELSE /\ response' = Some(UploadExcept(Error("ValidationError")))
                /\ rpc' = "responded"
                /\ UNCHANGED upload_players
    /\ UNCHANGED <<request, s3_objects, raw_data, upload_winner>>

(* line 55 *)
ProcessPlayers ==
    /\ UNCHANGED notR
    /\ rpc = "process"
    /\ LET processed == process_players(upload_players)
       IN  /\ upload_players' = processed.players
           /\ upload_winner' = processed.winner
    /\ rpc' = "build"
    /\ UNCHANGED <<request, s3_objects, raw_data, response>>

(* ScorecardData(...): par is None or has exactly 18 entries (line 22). *)
ParIsValid(par) == par = None \/ Len(par[1]) = NumHoles

(* lines 58-76 *)
BuildResponse ==
    /\ UNCHANGED notR
    /\ rpc = "build"
    /\ IF ParIsValid(raw_data[1].par)
       THEN response' = Some([status_code |-> 200,
                              data |-> [par |-> raw_data[1].par,
                                        players |-> upload_players],
                              winner |-> upload_winner])
       ELSE response' = Some(UploadExcept(Error("ValidationError")))
    /\ rpc' = "responded"
    /\ UNCHANGED <<request, s3_objects, raw_data, upload_players, upload_winner>>

(* export_scorecard lines 99-118 *)
ExportScorecard ==
    /\ UNCHANGED notR
    /\ rpc = "received"
    /\ request.route = "export"
    /\ response' =
          Some(IF request.format = "csv"
               THEN [status_code |-> 200, media_type |-> "text/csv"]
               ELSE IF request.format = "excel"
               THEN ExportExcept(HTTPException(501, "Excel export not yet implemented"))
               ELSE ExportExcept(HTTPException(400, "Invalid format")))
    /\ rpc' = "responded"
    /\ UNCHANGED <<request, s3_objects, raw_data, upload_players, upload_winner>>

----------------------------------------------------------------------------
(* claude_service.py: _compress_image                                      *)

ZIdle ==
    /\ zpc = "idle"
    /\ zimg = <<>>
    /\ processed_bytes = None
    /\ quality = 0
    /\ scale = 0
    /\ resized = <<>>
    /\ compressed_bytes = None
    /\ zresult = None

(* line 49: int(4.5 * 1024 * 1024) *)
max_size_bytes == 4718592

(* Bound: by how many bytes an encoding exceeds the limit. *)
MaxExcess == 2

(* The lengths the JPEG encoder may produce. *)
EncodedSizes ==
    {max_size_bytes - 1, max_size_bytes}
    \cup {max_size_bytes + x : x \in 1..MaxExcess}

CompressImages ==
    {[width |-> w, height |-> h, mode |-> md] :
        w \in {4032, 12000}, h \in {3024, 9000}, md \in {"RGB", "RGBA"}}

ZStart ==
    /\ zpc = "open"
    /\ zimg \in CompressImages
    /\ processed_bytes = None
    /\ quality = 0
    /\ scale = 0
    /\ resized = <<>>
    /\ compressed_bytes = None
    /\ zresult = None

(* lines 87, 98: scale starts at 0.8 and loses 0.1 each time; in IEEE      *)
(* doubles the values are 0.8, 0.7000000000000001, 0.6000000000000001,     *)
(* 0.5000000000000001, 0.40000000000000013, 0.30000000000000016 and        *)
(* 0.20000000000000015, of which the first six exceed 0.3.                 *)
ScaleAboveFloor(k) == k <= 5

(* lines 89-90: int(img.width * scale) *)
Scaled(length, k) == (length * (8 - k)) \div 10

(* lines 49-70 *)
CompressOpen ==
    /\ UNCHANGED notZ
    /\ zpc = "open"
    /\ zimg' = [zimg EXCEPT !.mode = IF @ = "RGBA" THEN "RGB" ELSE @]
    /\ \E size \in EncodedSizes :
          /\ processed_bytes' = Some(size)
          /\ IF size <= max_size_bytes
             THEN /\ zresult' = Some(size)
                  /\ zpc' = "returned"
                  /\ UNCHANGED quality
             ELSE /\ quality' = 85
                  /\ zpc' = "quality"
                  /\ UNCHANGED zresult
    /\ UNCHANGED <<scale, resized, compressed_bytes>>

(* lines 74-87: one turn of the quality loop; the encoder gives the same  *)
(* bytes for the same image at the same quality.                           *)
CompressQuality ==
    /\ UNCHANGED notZ
    /\ zpc = "quality"
    /\ quality > 20
    /\ \E size \in IF quality = 85 THEN {processed_bytes[1]} ELSE EncodedSizes :
          /\ compressed_bytes' = Some(size)
          /\ IF size <= max_size_bytes
             THEN /\ zresult' = Some(size)
                  /\ zpc' = "returned"
                  /\ UNCHANGED quality
             ELSE /\ quality' = quality - 10
                  /\ zpc' = IF quality - 10 > 20 THEN "quality" ELSE "resize"
                  /\ UNCHANGED zresult
    /\ UNCHANGED <<zimg, processed_bytes, scale, resized>>

(* lines 88-98: one turn of the resize loop *)
CompressResize ==
    /\ UNCHANGED notZ
    /\ zpc = "resize"
    /\ compressed_bytes[1] > max_size_bytes
    /\ ScaleAboveFloor(scale)
    /\ resized' = [width |-> Scaled(zimg.width, scale),
                   height |-> Scaled(zimg.height, scale)]
    /\ \E size \in EncodedSizes : compressed_bytes' = Some(size)
    /\ scale' = scale + 1
    /\ UNCHANGED <<zpc, zimg, processed_bytes, quality, zresult>>

(* line 100 *)
CompressReturn ==
    /\ UNCHANGED notZ
    /\ zpc = "resize"
    /\ ~(compressed_bytes[1] > max_size_bytes /\ ScaleAboveFloor(scale))
    /\ zresult' = compressed_bytes
    /\ zpc' = "returned"
    /\ UNCHANGED <<zimg, processed_bytes, quality, scale, resized, compressed_bytes>>

----------------------------------------------------------------------------
(* Specifications                                                          *)

Init == PStart /\ GIdle /\ OIdle /\ CIdle /\ FIdle /\ RIdle /\ ZIdle

Next ==
    \/ Fetch
    \/ Decode
    \/ Stage
    \/ UploadStep
    \/ TableDetection
    \/ RowIdentification
    \/ CellExtraction
    \/ Assemble
    \/ Finish

(* One process_scorecard run. *)
Spec == Init /\ [][Next]_vars

InitGrid == PIdle /\ GStart /\ OIdle /\ CIdle /\ FIdle /\ RIdle /\ ZIdle

NextGrid ==
    \/ FindContour
    \/ FilterLines
    \/ StartVertical
    \/ BuildGrid

(* One detect_table call. *)
SpecGrid == InitGrid /\ [][NextGrid]_vars

InitPass1 == PIdle /\ GIdle /\ OStart /\ CIdle /\ FIdle /\ RIdle /\ ZIdle

NextPass1 ==
    \/ Pass1Start
    \/ ExamineCell
    \/ Pass1Return

(* One detect_player_rows call. *)
SpecPass1 == InitPass1 /\ [][NextPass1]_vars

InitOcrCell == PIdle /\ GIdle /\ OIdle /\ CIdle /\ OcrCellStart /\ RIdle /\ ZIdle

NextOcrCell == OcrCellCall

(* One ocr_cell call. *)
SpecOcrCell == InitOcrCell /\ [][NextOcrCell]_vars

InitRoundTrip == PIdle /\ GIdle /\ OIdle /\ CIdle /\ RoundTripStart /\ RIdle /\ ZIdle

NextRoundTrip ==
    \/ EncodeCall
    \/ DecodeCall

(* image_to_bytes followed by bytes_to_image. *)
SpecRoundTrip == InitRoundTrip /\ [][NextRoundTrip]_vars

InitDeskew == PIdle /\ GIdle /\ OIdle /\ CIdle /\ DeskewStart /\ RIdle /\ ZIdle

NextDeskew == DeskewCall

(* One deskew call. *)
SpecDeskew == InitDeskew /\ [][NextDeskew]_vars

InitGrayscale == PIdle /\ GIdle /\ OIdle /\ CIdle /\ GrayscaleStart /\ RIdle /\ ZIdle

NextGrayscale == GrayscaleCall

(* One grayscale call. *)
SpecGrayscale == InitGrayscale /\ [][NextGrayscale]_vars

InitExtract == PIdle /\ GIdle /\ ScorecardStart /\ CIdle /\ FIdle /\ RIdle /\ ZIdle

NextExtract ==
    \/ Pass1Start
    \/ ExamineCell
    \/ Pass1Return
    \/ Pass2Start
    \/ ExtractScoreCell
    \/ FinishRow
    \/ Combine

(* One extract_scorecard_data call. *)
SpecExtract == InitExtract /\ [][NextExtract]_vars

InitConc == PIdle /\ GIdle /\ OIdle /\ CStart /\ FIdle /\ RIdle /\ ZIdle

NextConc ==
    \E run \in Runs :
        \/ CExamine(run)
        \/ CGlob(run)
        \/ CUpload(run)
        \/ CReturn(run)

(* Several runs, interleaved, sharing /tmp. *)
SpecConc == InitConc /\ [][NextConc]_vars

InitName == PIdle /\ GIdle /\ OIdle /\ CIdle /\ IsPlayerNameStart /\ RIdle /\ ZIdle

NextName == IsPlayerNameCall

(* One is_player_name call. *)
SpecName == InitName /\ [][NextName]_vars

InitTotals == PIdle /\ GIdle /\ OIdle /\ CIdle /\ CalculateTotalsStart /\ RIdle /\ ZIdle

NextTotals == CalculateTotalsCall

(* One calculate_totals call. *)
SpecTotals == InitTotals /\ [][NextTotals]_vars

InitWinner == PIdle /\ GIdle /\ OIdle /\ CIdle /\ WinnerStart /\ RIdle /\ ZIdle

NextWinner == WinnerCall

(* One calculate_stroke_play_winner call. *)
SpecWinner == InitWinner /\ [][NextWinner]_vars

InitRoutes == PIdle /\ GIdle /\ OIdle /\ CIdle /\ FIdle /\ RStart /\ ZIdle

NextRoutes ==
    \/ ValidateFileType
    \/ UploadToS3
    \/ ExtractWithClaude
    \/ ConvertPlayers
    \/ ProcessPlayers
    \/ BuildResponse
    \/ ExportScorecard

(* One request to /upload-and-process or to /export. *)
SpecRoutes == InitRoutes /\ [][NextRoutes]_vars

InitCompress == PIdle /\ GIdle /\ OIdle /\ CIdle /\ FIdle /\ RIdle /\ ZStart

NextCompress ==
    \/ CompressOpen
    \/ CompressQuality
    \/ CompressResize
    \/ CompressReturn

(* One _compress_image call. *)
SpecCompress == InitCompress /\ [][NextCompress]_vars

InitTall == PIdle /\ GIdle /\ (OStart \/ TallStart) /\ CIdle /\ FIdle /\ RIdle /\ ZIdle

NextTall ==
    \/ Pass1Start
    \/ ExamineCell
    \/ Pass1Return

(* One detect_player_rows call, on a small grid with any text recognised   *)
(* or on the name column of a tall scorecard.                              *)
SpecTall == InitTall /\ [][NextTall]_vars

----------------------------------------------------------------------------
(* Properties of run_pipeline and process_scorecard (under Spec)           *)

StageNames ==
    <<"grayscale", "contrast_enhancement", "denoising", "binarization", "deskewing">>

(* run_pipeline has returned to process_scorecard. *)
PipelineReturned ==
    pc \in {"upload_steps", "table_detection", "extraction", "cells", "assemble",
            "finish", "done"}

NothingRaisedInPipeline ==
    \A i \in 1..Len(executed) : executed[i][1] # "raise"

StageRaised(k, e) ==
    \E i \in 1..Len(executed) : executed[i] = Raised(StageNames[k], e)

DecodeRaised ==
    \E i \in 1..Len(executed) : executed[i][1] = "raise" /\ executed[i][2] = "decode"

EncodedImage(step) == step.image_bytes[1].encoded[1].img

(* C1: when nothing raises, run_pipeline returns exactly the five success  *)
(* records grayscale, contrast_enhancement, denoising, binarization,       *)
(* deskewing in that order, the image of stage k being the source image    *)
(* with exactly the first k transforms applied in order (each stage ran on *)
(* the output of the one before it), and the final image is the deskewing  *)
(* record's image bytes, not None.                                         *)
C1_PipelineSuccess ==
    (PipelineReturned /\ NothingRaisedInPipeline) =>
        /\ Len(steps) = 5
        /\ \A k \in 1..5 :
              /\ steps[k].step_name = StageNames[k]
              /\ steps[k].status = "success"
              /\ steps[k].image_bytes # None
              /\ EncodedImage(steps[k]).ops = SubSeq(StageNames, 1, k)
              /\ EncodedImage(steps[k]).src = image_bytes[1].id
        /\ final_image_bytes # None
        /\ final_image_bytes = steps[5].image_bytes

C1_Witness ==
    /\ pc = "done"
    /\ NothingRaisedInPipeline
    /\ Len(steps) = 5
    /\ final_image_bytes # None

(* C2: when stage k raises, run_pipeline still returns: the list is the    *)
(* k-1 success records of the earlier stages followed by one error record  *)
(* named failed_at_step_k carrying the error text, no later stage has run  *)
(* and the final image is None.                                            *)
C2_StageFailure ==
    \A k \in 1..5 : \A e \in ErrTexts :
        StageRaised(k, e) =>
            /\ PipelineReturned
            /\ Len(steps) = k
            /\ \A j \in 1..(k - 1) :
                  steps[j].step_name = StageNames[j] /\ steps[j].status = "success"
            /\ steps[k].step_name = "failed_at_step_" \o ToString(k)
            /\ steps[k].status = "error"
            /\ steps[k].error = Some(e)
            /\ final_image_bytes = None
            /\ \A j \in (k + 1)..5 : \A i \in 1..Len(executed) :
                  executed[i] # Started(StageNames[j])

C2_Witness ==
    /\ pc = "done"
    /\ \E e \in ErrTexts : StageRaised(3, e)
    /\ Len(steps) = 3
    /\ steps[3].status = "error"

(* C3 (as claimed): a decode error aborts the request: run_pipeline        *)
(* produces no step record for it and process_scorecard reports no partial *)
(* result.                                                                 *)
C3_DecodeErrorIsFatal ==
    DecodeRaised =>
        /\ steps = <<>>
        /\ \A i \in 1..Len(steps_response) : steps_response[i].status # "error"
        /\ status # Some("partial_failure")

StageSequence ==
    <<"fetch", "grayscale", "contrast_enhancement", "denoising", "binarization",
      "deskewing", "table_detection", "row_identification", "cell_extraction",
      "assembly">>

IsStart(ev) == ev[1] = "start"

StartedStages == SelectSeq(executed, IsStart)

(* C4 (as claimed): the stages start in the fixed order, each at most      *)
(* once and only after all earlier ones, and no stage starts after a       *)
(* stage has raised or has been recorded with status error.                *)
C4_StagesInOrder ==
    /\ Len(StartedStages) <= Len(StageSequence)
    /\ \A i \in 1..Len(StartedStages) : StartedStages[i] = Started(StageSequence[i])
    /\ \A i \in 1..Len(executed) : \A j \in 1..Len(executed) :
          (i < j /\ executed[i][1] \in {"raise", "fail"}) => executed[j][1] # "start"

----------------------------------------------------------------------------
(* Properties of detect_table (under SpecGrid)                             *)

(* C6: a TableGrid returned by detect_table has num_rows = number of       *)
(* horizontal positions - 1, num_cols = number of vertical positions - 1,  *)
(* len(cells) = num_rows * num_cols, and at least one row and one column.  *)
C6_GridDimensions ==
    (gpc = "done" /\ table # None) =>
        LET t == table[1] IN
        /\ t.num_rows = Len(horizontal_positions) - 1
        /\ t.num_cols = Len(vertical_positions) - 1
        /\ Len(t.horizontal_lines) = Len(horizontal_positions)
        /\ Len(t.vertical_lines) = Len(vertical_positions)
        /\ Len(t.cells) = t.num_rows * t.num_cols
        /\ t.num_rows >= 1
        /\ t.num_cols >= 1

C6_Witness ==
    /\ gpc = "done"
    /\ table # None
    /\ Len(horizontal_positions) = 3
    /\ Len(vertical_positions) = 2

CellsAt(t, r, c) == {i \in 1..Len(t.cells) : t.cells[i].row = r /\ t.cells[i].col = c}

(* C7: the cells of the grid are exactly one cell for every pair (r, c),   *)
(* 0 <= r < len(H) - 1, 0 <= c < len(V) - 1, and no other; that cell has   *)
(* x = V[c], y = H[r], width = V[c+1] - V[c], height = H[r+1] - H[r]       *)
(* (0-based), so the indices follow the order of the positions.            *)
C7_CellsCrossProduct ==
    (gpc = "done" /\ table # None) =>
        LET t == table[1]
            H == horizontal_positions
            V == vertical_positions
        IN  /\ \A r \in 0..(Len(H) - 2) : \A c \in 0..(Len(V) - 2) :
                  /\ Cardinality(CellsAt(t, r, c)) = 1
                  /\ \A i \in CellsAt(t, r, c) :
                        /\ t.cells[i].x = V[c + 1]
                        /\ t.cells[i].y = H[r + 1]
                        /\ t.cells[i].width = V[c + 2] - V[c + 1]
                        /\ t.cells[i].height = H[r + 2] - H[r + 1]
            /\ \A i \in 1..Len(t.cells) :
                  /\ t.cells[i].row \in 0..(Len(H) - 2)
                  /\ t.cells[i].col \in 0..(Len(V) - 2)

C7_Witness ==
    /\ gpc = "done"
    /\ table # None
    /\ Len(table[1].cells) = 4
    /\ \E i \in 1..4 : table[1].cells[i].row = 1 /\ table[1].cells[i].col = 1
                       /\ table[1].cells[i].width > 20

(* C8: with fewer than 2 positions on either axis detect_table returns     *)
(* None; it returns no TableGrid without cells and none with a partial     *)
(* set of cells.                                                           *)
C8_NoGridBelowTwoLines ==
    gpc = "done" =>
        /\ (Len(horizontal_positions) < 2 \/ Len(vertical_positions) < 2) => table = None
        /\ table # None =>
              Len(table[1].cells) =
                  (Len(horizontal_positions) - 1) * (Len(vertical_positions) - 1)
        /\ table # None => Len(table[1].cells) > 0

C8_Witness ==
    /\ gpc = "done"
    /\ Len(horizontal_positions) = 3
    /\ Len(vertical_positions) = 1
    /\ table = None

(* C9: find_line_positions returns a strictly ascending list of candidate  *)
(* centres, any two more than 20 px apart, and every candidate it dropped  *)
(* is within 20 px of a returned position.                                 *)
C9_LinePositions ==
    gpc \in {"h_filtered", "v_filtered"} =>
        LET cand == Range(positions)
            out == filtered
        IN  /\ \A i \in 1..(Len(out) - 1) : out[i] < out[i + 1]
            /\ \A i \in 1..Len(out) : \A j \in 1..Len(out) :
                  i # j => Abs(out[i] - out[j]) > 20
            /\ \A i \in 1..Len(out) : out[i] \in cand
            /\ \A c \in cand : c \notin Range(out) =>
                  \E i \in 1..Len(out) : Abs(c - out[i]) <= 20

C9_Witness ==
    /\ gpc = "v_filtered"
    /\ Len(positions) = 3
    /\ Len(filtered) = 2
    /\ \E i \in 1..3 : positions[i] \notin Range(filtered)
                       /\ \E j \in 1..2 : Abs(positions[i] - filtered[j]) = 20

----------------------------------------------------------------------------
(* Properties of detect_player_rows (under SpecPass1)                      *)

(* The cells of a row that qualify as candidates: column 0..3, wider than  *)
(* 80 px.                                                                  *)
QualifyingCols(row) ==
    {cells[i].col : i \in {j \in 1..Len(cells) :
        cells[j].row = row /\ cells[j].col \in 0..3 /\ cells[j].width > 80}}

GridRows == {cells[i].row : i \in 1..Len(cells)}

ExaminedAt(row) == {i \in 1..Len(examined) : examined[i].row = row}

(* C10: Pass 1 examines at most one cell per grid row; for a row with a    *)
(* cell in column 0..3 wider than 80 px it is the one of those cells with  *)
(* the smallest column index; a row without such a cell is never examined  *)
(* and never becomes a player row.                                         *)
C10_OneCandidatePerRow ==
    /\ \A row \in GridRows :
          /\ Cardinality(ExaminedAt(row)) <= 1
          /\ \A i \in ExaminedAt(row) :
                /\ QualifyingCols(row) # {}
                /\ examined[i].col = SetMin(QualifyingCols(row))
          /\ (opc = "returned" /\ QualifyingCols(row) # {}) => ExaminedAt(row) # {}
          /\ QualifyingCols(row) = {} => row \notin Range(player_rows)
    /\ \A i \in 1..Len(examined) : examined[i].row \in GridRows
    /\ Range(player_rows) \subseteq {examined[i].row : i \in 1..Len(examined)}

C10_Witness ==
    /\ opc = "returned"
    /\ \E row \in GridRows :
          /\ Cardinality(QualifyingCols(row)) >= 2
          /\ 0 \notin QualifyingCols(row)
          /\ row \in Range(player_rows)

----------------------------------------------------------------------------
(* Properties of concurrent runs (under SpecConc)                          *)

(* C5 (as claimed): the debug images a run uploads and deletes are ones    *)
(* that run wrote itself, and no run overwrites a debug image of another   *)
(* run.                                                                    *)
C5_RunsIsolated ==
    /\ \A run \in Runs :
          /\ \A e \in uploaded[run] : e[2] = run
          /\ \A e \in removed[run] : e[2] = run
    /\ overwrote = {}

----------------------------------------------------------------------------
(* Properties of is_player_name (under SpecName)                           *)

IsPlayerNameReturned ==
    /\ call # <<>>
    /\ call.fn = "is_player_name"
    /\ result # Pending

(* The conditions of a player name, one by one. *)
NameConditions(t, row) ==
    /\ Len(t) >= 2 /\ Len(t) <= 25
    /\ row >= 5 /\ row <= 15
    /\ \A w \in Range(Split(Lower(t))) : w \notin banned_keywords
    /\ Cardinality({i \in 1..Len(t) : IsAlpha(t[i])}) >= 2
    /\ Len(Split(t)) <= 3
    /\ Cardinality({i \in 1..Len(t) : IsDigit(t[i])})
          <= Cardinality({i \in 1..Len(t) : IsAlpha(t[i])})
    /\ \A i \in 1..Len(t) : t[i] \notin rare_chars

BradD == <<"B", "r", "a", "d", " ", "D">>

(* C11: is_player_name(text, row) is true exactly when the text has 2 to   *)
(* 25 characters, the row is 5 to 15, no word of the lower-cased text is a *)
(* banned keyword, there are at least 2 letters, at most 3 words, no more  *)
(* digits than letters and no rare symbol; ("Brad D", 7) is accepted and   *)
(* ("HANDICAP", 2), ("47", 9), ("A", 9) are rejected.                      *)
C11_IsPlayerNameIff ==
    IsPlayerNameReturned =>
        /\ result = Returned(call.text # None
                             /\ NameConditions(call.text[1], call.row_index))
        /\ (call.text = Some(BradD) /\ call.row_index = 7) => result = Returned(TRUE)
        /\ (call.text = Some(<<"H", "A", "N", "D", "I", "C", "A", "P">>) /\ call.row_index = 2)
               => result = Returned(FALSE)
        /\ (call.text \in {Some(<<"4", "7">>), Some(<<"A">>)} /\ call.row_index = 9)
               => result = Returned(FALSE)

C11_Witness ==
    /\ IsPlayerNameReturned
    /\ call.text = Some(BradD)
    /\ call.row_index = 7
    /\ result = Returned(TRUE)

(* A banned keyword occurs somewhere within the text, whatever the case. *)
ContainsKeyword(t) ==
    \E k \in banned_keywords : \E i \in 1..Len(t) :
        /\ i + Len(k) - 1 <= Len(t)
        /\ SubSeq(Lower(t), i, i + Len(k) - 1) = k

(* C12 (as claimed): a text that is, or contains anywhere within it, a     *)
(* banned keyword in any case is never accepted as a player name, at any   *)
(* row.                                                                    *)
C12_NoBannedSubstring ==
    (IsPlayerNameReturned /\ call.text # None /\ ContainsKeyword(call.text[1]))
        => result = Returned(FALSE)

----------------------------------------------------------------------------
(* Properties of extract_scorecard_data (under SpecExtract)                *)

(* C13 (as claimed): Pass 1 runs the recogniser on no candidate cell that  *)
(* is near-empty (nothing printed in it), and the row of such a candidate  *)
(* is not a player row.                                                    *)
C13_ContentCheckBeforeOcr ==
    \A e \in recognised :
        e[1] = 1 => Printed(e[2], e[3]) # <<>>

(* The scorecard is clean and has 4 player rows and 18 score columns. *)
CleanFourByEighteen ==
    /\ scorecard # <<>>
    /\ scorecard.special = NoSpecial
    /\ Cardinality(GridRows) - scorecard.header = 4
    /\ max_col = 18

(* C14 (as claimed): for a clean scorecard with 4 player rows and 18 score *)
(* columns, extract_scorecard_data returns exactly 4 players, each with 18 *)
(* all_values, named as the 4 names printed in the image.                  *)
C14_CleanScorecard ==
    (opc = "done" /\ CleanFourByEighteen) =>
        /\ extracted[1].total_players = 4
        /\ Len(extracted[1].players) = 4
        /\ \A i \in 1..Len(extracted[1].players) :
              /\ Len(extracted[1].players[i].all_values) = 18
              /\ extracted[1].players[i].name
                     = Printed(extracted[1].players[i].row, 0)

----------------------------------------------------------------------------
(* Properties of ocr_cell (under SpecOcrCell)                              *)

OcrCellReturned ==
    /\ call # <<>>
    /\ call.fn = "ocr_cell"
    /\ result # Pending

Parentheses(t) == SelectSeq(t, LAMBDA c : c \in {"(", ")"})

(* C15 (as claimed): whatever the recogniser returned, a non-null value of *)
(* ocr_cell in score mode is a non-empty string of characters from         *)
(* 0123456789() only, with the recogniser's parentheses kept.              *)
C15_ScoreCharsOnly ==
    (OcrCellReturned /\ call.mode = "score" /\ result[2] # None) =>
        /\ result[2][1] # <<>>
        /\ \A i \in 1..Len(result[2][1]) : result[2][1][i] \in Digits \cup {"(", ")"}
        /\ Parentheses(result[2][1]) = Parentheses(call.raw[1])

(* C16: ocr_cell returns None or a string that is neither empty nor made   *)
(* of whitespace only, in score mode and in name mode; no content gives    *)
(* None.                                                                   *)
C16_NoEmptyString ==
    OcrCellReturned =>
        /\ result[2] # None =>
              /\ result[2][1] # <<>>
              /\ \E i \in 1..Len(result[2][1]) : ~IsSpace(result[2][1][i])
        /\ (call.raw = None \/ Strip(call.raw[1]) = <<>>) => result[2] = None

C16_Witness ==
    /\ OcrCellReturned
    /\ call.mode = "name"
    /\ call.raw = Some(<<" ", "\n">>)
    /\ result = Returned(None)

----------------------------------------------------------------------------
(* Properties of Pass 2 (under SpecExtract)                                *)

(* Pass 2 was left by an exception. *)
Pass2Raised == opc = "raised" /\ pass2_rows # <<>>

(* No text can be obtained from the cell (row, col). *)
CellFails(row, col) ==
    /\ scorecard.special.row = row
    /\ scorecard.special.col = col
    /\ scorecard.special.kind \in {"empty", "ocr_error", "cell_error"}

(* The value of the cell (row, col) when text is obtained from it. *)
ValueOf(row, col) ==
    IF scorecard.special.row = row /\ scorecard.special.col = col
    THEN ocr_cell_score(Some(<<"|", "1", "\n">>))
    ELSE ocr_cell_score(Some(PrintedClean(scorecard.header, row, col)))

RowAsExpected(row, values) ==
    \A i \in 1..Len(values) :
        values[i] = IF CellFails(row, i - 1) THEN None ELSE ValueOf(row, i - 1)

(* C17 (as claimed): in Pass 2 a cell from which no text is obtained (no   *)
(* text, or an error while cutting out, preprocessing or recognising it)   *)
(* is a null for that cell only: the other cells have the values they      *)
(* would have anyway, and neither the row nor the extraction is aborted.   *)
C17_CellFailureIsLocal ==
    /\ ~Pass2Raised
    /\ pass2_rows # <<>> => RowAsExpected(Head(pass2_rows), row_values)
    /\ \A i \in 1..Len(pass2_player_data) :
          /\ RowAsExpected(pass2_player_data[i].row, pass2_player_data[i].all_values)
          /\ Len(pass2_player_data[i].all_values) = max_col + 1

----------------------------------------------------------------------------
(* Properties of process_scorecard on empty detections (under Spec)        *)

NoTableText == "Could not detect table structure"

(* C18 (as claimed): finding no table, or finding no player row, is not an *)
(* error: no stage is marked with an error status for it, and a run whose  *)
(* Pass 1 found no player row ends with zero players.                      *)
C18_DetectionEmptyIsNormal ==
    /\ \A i \in 1..Len(steps_response) :
          steps_response[i].error = Some(NoTableText)
              => steps_response[i].status # "error"
    /\ (detection = Some({}) /\ scorecard_data # None)
          => scorecard_data[1].total_players = 0

----------------------------------------------------------------------------
(* Properties of deskew (under SpecDeskew) and grayscale (under            *)
(* SpecGrayscale)                                                          *)

(* C19 (as claimed): for every best angle of the search range, below 0.5   *)
(* degrees in magnitude the input is returned unrotated and the reported   *)
(* angle is 0; otherwise the image is rotated by the best angle and that   *)
(* angle is reported.                                                      *)
C19_ReportedAngleIsApplied ==
    (call # <<>> /\ call.fn = "deskew" /\ result # Pending) =>
        /\ result[1] = "returned"
        /\ result[2].img = call.img
        /\ IF Abs(angles[call.best_idx]) < 2
           THEN result[2].rotation = 0 /\ result[2].data.rotation_angle = 0
           ELSE /\ result[2].rotation = angles[call.best_idx]
                /\ result[2].data.rotation_angle = angles[call.best_idx]

(* C20 (as claimed): for an input of 1, 3 or 4 channels grayscale returns  *)
(* a 1-channel image and metrics with the input's channel count and an     *)
(* output channel count of 1.                                              *)
C20_GrayscaleOneChannel ==
    (call # <<>> /\ call.fn = "grayscale" /\ result # Pending) =>
        /\ result[1] = "returned"
        /\ result[2].img.channels = 1
        /\ result[2].data.original_channels = call.img.channels
        /\ result[2].data.output_channels = 1

----------------------------------------------------------------------------
(* Properties of the encode/decode round trip (under SpecRoundTrip)        *)

(* C21 (as claimed): decoding the bytes image_to_bytes made of an image of *)
(* 1 or 3 channels gives an image of the same height and width, and for    *)
(* PNG the very same pixel array.                                          *)
C21_RoundTrip ==
    (call # <<>> /\ call.fn = "bytes_to_image") =>
        /\ result[1] = "returned"
        /\ result[2].height = call.original.height
        /\ result[2].width = call.original.width
        /\ call.format = "PNG" => result[2] = call.original

----------------------------------------------------------------------------
(* Properties of run_pipeline's list of records (under Spec)               *)

(* The stages of run_pipeline that were entered. *)
PipelineStagesRun ==
    {k \in 1..5 : \E i \in 1..Len(executed) : executed[i] = Started(StageOrder[k])}

RecordsOfStagesRun ==
    /\ Len(steps) = Cardinality(PipelineStagesRun) + (IF DecodeRaised THEN 1 ELSE 0)
    /\ \A k \in PipelineStagesRun :
          /\ k <= Len(steps)
          /\ \/ steps[k].step_name = StageOrder[k] /\ steps[k].status = "success"
             \/ /\ steps[k].step_name = "failed_at_step_" \o ToString(k)
                /\ steps[k].status = "error"
                /\ k = Len(steps)

StepsOnlyAppended ==
    \/ steps' = steps
    \/ /\ Len(steps') = Len(steps) + 1
       /\ SubSeq(steps', 1, Len(steps)) = steps

(* C22: run_pipeline's list of records is append-only: every stage that    *)
(* ran has exactly one record, at its position, and a step of the program  *)
(* leaves the list alone or adds one record at its end, the records        *)
(* already there staying as they were and where they were, also when the   *)
(* failure handler runs.                                                   *)
C22_StepsAppendOnly == []RecordsOfStagesRun /\ [][StepsOnlyAppended]_vars

C22_Witness ==
    /\ pc = "done"
    /\ Len(steps) = 3
    /\ steps[1].status = "success"
    /\ steps[2].status = "success"
    /\ steps[3].step_name = "failed_at_step_3"

----------------------------------------------------------------------------
(* Properties of extract_scorecard_data's result (under SpecExtract)       *)

(* What Pass 1 recognises in the candidate cell of a row: None when the    *)
(* row has no candidate or nothing is recognised.                          *)
RecognisedName(row) ==
    IF QualifyingCols(row) = {} THEN None
    ELSE LET out == Reading(row, SetMin(QualifyingCols(row)))
         IN  IF out = CellError THEN None ELSE ocr_cell_name(out)

(* The rows Pass 1 accepts. *)
AcceptedRows == {row \in GridRows : is_player_name(RecognisedName(row), row)}

(* C23: the result of extract_scorecard_data has exactly one player record *)
(* per row accepted by Pass 1, in ascending row order, named with the text *)
(* Pass 1 recognised in the row's candidate cell and never 'Unknown', and  *)
(* total_players is the number of records.                                 *)
C23_OneRecordPerAcceptedRow ==
    (opc = "done" /\ extracted # None) =>
        LET players == extracted[1].players IN
        /\ {players[i].row : i \in 1..Len(players)} = AcceptedRows
        /\ \A i \in 1..Len(players), j \in 1..Len(players) :
              i < j => players[i].row < players[j].row
        /\ \A i \in 1..Len(players) :
              /\ players[i].name = RecognisedName(players[i].row)[1]
              /\ players[i].name # UnknownName
        /\ extracted[1].total_players = Len(players)

C23_Witness ==
    /\ opc = "done"
    /\ extracted # None
    /\ Len(extracted[1].players) >= 2
    /\ extracted[1].players[1].name # extracted[1].players[2].name

----------------------------------------------------------------------------
(* Properties of extract_player_rows' rows (under SpecExtract)             *)

GridCols == {cells[i].col : i \in 1..Len(cells)}

(* The value Pass 2 gives for the cell at (row, col). *)
RecognisedValue(row, col) ==
    IF \A i \in 1..Len(cells) : ~(cells[i].row = row /\ cells[i].col = col)
    THEN None
    ELSE ocr_cell_score(Reading(row, col))

(* C27: for every row identified in Pass 1, all_values has the grid's      *)
(* maximum column index + 1 entries, entry i being the value recognised in *)
(* the row's cell at column i (None without such a cell or without text),  *)
(* in ascending column order, name column included.                        *)
C27_AllValuesByColumn ==
    /\ \A i \in 1..Len(pass2_player_data) :
          /\ pass2_player_data[i].row = player_rows[i]
          /\ Len(pass2_player_data[i].all_values) = SetMax(GridCols) + 1
          /\ \A col \in GridCols :
                pass2_player_data[i].all_values[col + 1]
                    = RecognisedValue(pass2_player_data[i].row, col)
    /\ opc = "done" => Len(pass2_player_data) = Len(player_rows)

C27_Witness ==
    /\ opc = "done"
    /\ Len(pass2_player_data) >= 2
    /\ SetMax(GridCols) = 18
    /\ \E col \in GridCols :
          /\ col + 1 \in GridCols
          /\ pass2_player_data[1].all_values[col + 1] = None
          /\ pass2_player_data[1].all_values[col + 2] # None

----------------------------------------------------------------------------
(* Properties of game_modes (under SpecWinner and SpecTotals)              *)

WithTotal(players) == {i \in 1..Len(players) : players[i].total # None}

LowestTotal(players) == SetMin({players[i].total[1] : i \in WithTotal(players)})

(* C24: calculate_stroke_play_winner returns None exactly when no player   *)
(* has a total; otherwise the name of the first listed of the players      *)
(* whose total is the lowest.                                              *)
C24_FirstLowestWins ==
    (call # <<>> /\ call.fn = "calculate_stroke_play_winner" /\ result # Pending) =>
        LET players == call.players
        IN  /\ (result = Returned(None)) <=> (WithTotal(players) = {})
            /\ WithTotal(players) # {} =>
                  LET first == SetMin({i \in WithTotal(players) :
                                          players[i].total[1] = LowestTotal(players)})
                  IN  result = Returned(Some(players[first].name))

C24_Witness ==
    /\ call # <<>>
    /\ call.fn = "calculate_stroke_play_winner"
    /\ Len(call.players) = 3
    /\ call.players[1].total = None
    /\ call.players[2].total = Some(1)
    /\ call.players[3].total = Some(1)
    /\ call.players[2].name # call.players[3].name
    /\ result = Returned(Some(call.players[2].name))

(* The sum of the scores written on the holes lo..hi of a card. *)
RECURSIVE SumHoles(_, _, _)
SumHoles(scores, lo, hi) ==
    IF hi < lo THEN 0
    ELSE (IF scores[hi] = None THEN 0 ELSE scores[hi][1]) + SumHoles(scores, lo, hi - 1)

NoneOrSum(scores, lo, hi) ==
    IF \A h \in lo..hi : scores[h] = None
    THEN None
    ELSE Some(SumHoles(scores, lo, hi))

AsNumber(t) == IF t = None THEN 0 ELSE t[1]

(* C25: after calculate_totals, total is the sum of the non-null scores    *)
(* (None exactly when all are null), front_nine_total that of holes 1-9,   *)
(* back_nine_total that of holes 10-18, and a non-null total is the sum of *)
(* the two with None counted as 0.                                         *)
C25_TotalsAreSums ==
    (call # <<>> /\ call.fn = "calculate_totals" /\ result # Pending) =>
        /\ result[1] = "returned"
        /\ LET player == result[2]
               scores == call.player.scores
           IN  /\ player.scores = scores
               /\ player.total = NoneOrSum(scores, 1, 18)
               /\ (player.total = None) <=> (\A h \in 1..18 : scores[h] = None)
               /\ player.front_nine_total = NoneOrSum(scores, 1, 9)
               /\ player.back_nine_total = NoneOrSum(scores, 10, 18)
               /\ player.total # None =>
                     player.total[1] = AsNumber(player.front_nine_total)
                                         + AsNumber(player.back_nine_total)

C25_Witness ==
    /\ call # <<>>
    /\ call.fn = "calculate_totals"
    /\ result # Pending
    /\ result[2].front_nine_total = Some(2)
    /\ result[2].back_nine_total = None
    /\ result[2].total = Some(2)
    /\ call.player.scores[9] = Some(2)

----------------------------------------------------------------------------
(* Properties of the routes (under SpecRoutes)                             *)

NineHoleCard ==
    /\ raw_data # None
    /\ raw_data[1].players # <<>>
    /\ \A i \in 1..Len(raw_data[1].players) : Len(raw_data[1].players[i].scores) = 9

(* C26: when the extraction service returns players with 9 scores, the     *)
(* upload route answers successfully and every player has                  *)
(* front_nine_total = total and back_nine_total = None.                    *)
C26_NineHolesSupported ==
    (rpc = "responded" /\ NineHoleCard) =>
        /\ response[1].status_code = 200
        /\ \A i \in 1..Len(response[1].data.players) :
              LET player == response[1].data.players[i]
              IN  /\ Len(player.scores) = 9
                  /\ player.front_nine_total = player.total
                  /\ player.back_nine_total = None

NotAnImage ==
    /\ request.route = "upload-and-process"
    /\ ~StartsWith(request.content_type, <<"i", "m", "a", "g", "e", "/">>)

(* C28: an upload whose content type does not start with image/ is         *)
(* answered with 400 and nothing is stored, and an export to excel is      *)
(* answered with 501.                                                      *)
C28_DeliberateStatusKept ==
    rpc = "responded" =>
        /\ NotAnImage => (response[1].status_code = 400 /\ s3_objects = {})
        /\ (request.route = "export" /\ request.format = "excel") =>
              response[1].status_code = 501

----------------------------------------------------------------------------
(* Properties of _compress_image (under SpecCompress)                      *)

(* C29: _compress_image returns, and the bytes it returns are no more than *)
(* max_size_bytes, whatever lengths the encoder produces.                  *)
C29_ReturnsWithinLimit ==
    zpc = "returned" => zresult[1] <= max_size_bytes

----------------------------------------------------------------------------
(* Properties of detect_player_rows' result (under SpecTall)               *)

(* C30: the rows detect_player_rows returns are strictly ascending and all *)
(* within 5..15, player_names has the same length and holds, position by   *)
(* position, the name recognised in the row; so there are at most 11       *)
(* players, and none for a grid of fewer than 6 rows.                      *)
C30_RowsInBodyRange ==
    /\ \A i \in 1..Len(player_rows) : \A j \in 1..Len(player_rows) :
          i < j => player_rows[i] < player_rows[j]
    /\ \A i \in 1..Len(player_rows) : player_rows[i] >= 5 /\ player_rows[i] <= 15
    /\ Len(player_names) = Len(player_rows)
    /\ scorecard # <<>> =>
          \A i \in 1..Len(player_rows) :
              RecognisedName(player_rows[i]) = Some(player_names[i])
    /\ Len(player_rows) <= 11
    /\ Cardinality(GridRows) < 6 => player_rows = <<>>

C30_Witness ==
    /\ opc = "returned"
    /\ scorecard # <<>>
    /\ Cardinality(GridRows) = 18
    /\ player_rows = <<5, 6, 7, 8, 9, 10, 11, 12, 13, 14, 15>>
    /\ \A row \in {16, 17} : <<1, row, 0>> \in recognised

====
